---- MODULE Spec2Model ----
(***************************************************************************)
(* Company-settings MCP server: the request executor (makeRequest), the    *)
(* dispatcher and the tool handlers, the token verifier, the response      *)
(* normaliser (parseAPIResponse) and the line-oriented text engines        *)
(* (decodeSetting, paginateSettingValue, searchInSettingValue).            *)
(*                                                                         *)
(* Text is a sequence of one-character strings; an absent optional number  *)
(* (undefined) is Undef; an absent string is the empty sequence.           *)
(***************************************************************************)
EXTENDS Integers, Sequences, FiniteSets, TLC

VARIABLES
    procEnv,      \* process.env: the TP_SETTINGS_TOKEN* variables
    server,       \* main(): "starting", "running" or "exited"
    config,       \* CompanySettingsClient._config (NoConfig = null)
    log,          \* credential previews written by console.log
    pc,           \* per call: position of the tool call
    call,         \* per call: tool name and arguments
    attempt,      \* per call: makeRequest's loop counter
    lastError,    \* per call: makeRequest's lastError
    requests,     \* per call: number of axios.get calls issued by makeRequest
    received,     \* per call: the status of each settled request (0: exception)
    waits,        \* per call: the backoff delays started, in order
    verify,       \* per call: verifyEnvironmentTokens' loop position and results
    reqResult,    \* per call: the RequestResult makeRequest resolved to
    toolResult,   \* per call: the payload the handler returned
    txt           \* the text engines' work area (SpecText)

vars == <<procEnv, server, config, log, pc, call, attempt, lastError,
          requests, received, waits, verify, reqResult, toolResult, txt>>

reqVars == <<procEnv, server, config, log, pc, call, attempt, lastError,
             requests, received, waits, verify, reqResult, toolResult>>

----------------------------------------------------------------------------
(* Bounds *)

MaxTokenLen == 11

MaxValueLen == 4

MaxPageLen == 4

MaxCodecLen == 4

MaxTermLen == 1

MaxContextLines == 1

MaxLimit == 3

MaxOffset == 6

MaxLeadLen == 2

----------------------------------------------------------------------------
(* Text helpers *)

Undef == 0 - 1

Min(a, b) == IF a < b THEN a ELSE b
Max(a, b) == IF a > b THEN a ELSE b

\* String.prototype.substring(0, n)
Substring0(s, n) == SubSeq(s, 1, Min(n, Len(s)))

\* needle occurs in hay as a contiguous substring
Contains(hay, needle) ==
    \E i \in 0..(Len(hay) - Len(needle)) :
        SubSeq(hay, i + 1, i + Len(needle)) = needle

Ellipsis == <<".", ".", ".">>

----------------------------------------------------------------------------
(* Configuration: loadConfig *)

Envs == {"pd", "in", "ac"}

EnvSeq == <<"pd", "in", "ac">>

TokenChars == <<"t", "0", "k", "3", "n", "A", "b", "C", "d", "E", "f", "G",
                "h", "I", "j", "K">>

\* a credential of n characters for an environment variable
Token(tag, n) == <<tag>> \o SubSeq(TokenChars, 1, n - 1)

Unset == <<>>

MinTokenLen == 10

TokenLens == (MinTokenLen - 1)..MaxTokenLen

\* process environments the server may be started in
ProcEnvs ==
    {[TOKEN_PD |-> Token("p", n), TOKEN_IN |-> Token("i", n), TOKEN_AC |-> Token("a", n),
      TOKEN |-> Unset] : n \in TokenLens}
    \cup {[TOKEN_PD |-> Unset, TOKEN_IN |-> Unset, TOKEN_AC |-> Unset,
           TOKEN |-> Token("s", MinTokenLen)]}
    \cup {[TOKEN_PD |-> Token("p", MinTokenLen), TOKEN_IN |-> Unset, TOKEN_AC |-> Unset,
           TOKEN |-> Unset],
          [TOKEN_PD |-> Unset, TOKEN_IN |-> Unset, TOKEN_AC |-> Unset, TOKEN |-> Unset]}

NoConfig == [ok |-> FALSE, tokens |-> [e \in Envs |-> Unset],
             baseUrls |-> [e \in Envs |-> ""], timeout |-> 0, loads |-> 0]

DefaultTimeout == 30000

DefaultBaseUrls ==
    [e \in Envs |-> CASE e = "pd" -> "http://tpadmin.pd.tp.nil/api/internal/v1"
                      [] e = "in" -> "http://tpadmin.in.tp.nil/api/internal/v1"
                      [] e = "ac" -> "http://tpadmin.ac.tp.nil/api/internal/v1"]

\* loadConfig's token selection; a required variable that is unset throws
SelectTokens(env) ==
    IF env.TOKEN_PD # Unset \/ env.TOKEN_IN # Unset \/ env.TOKEN_AC # Unset
    THEN [e \in Envs |-> CASE e = "pd" -> env.TOKEN_PD
                           [] e = "in" -> env.TOKEN_IN
                           [] e = "ac" -> env.TOKEN_AC]
    ELSE [e \in Envs |-> env.TOKEN]

\* the "too short" test of loadConfig's token validation
TokenTooShort(token) == Len(token) < MinTokenLen

\* loadConfig: ok = FALSE stands for the thrown "Configuration error"; loads
\* counts the loadConfig runs behind the object held in _config
loadConfig(env) ==
    LET tokens == SelectTokens(env) IN
    IF \E e \in Envs : tokens[e] = Unset \/ TokenTooShort(tokens[e])
    THEN NoConfig
    ELSE [ok |-> TRUE, tokens |-> tokens, baseUrls |-> DefaultBaseUrls,
          timeout |-> DefaultTimeout, loads |-> 1]

getConfigMutant(cfg, env) == [loadConfig(env) EXCEPT !.loads = cfg.loads + 1]

\* CompanySettingsClient.getConfig: load on first use, then cached
getConfig(cfg, env) == IF cfg.ok THEN cfg ELSE loadConfig(env)

PreviewLen == 10

\* token?.substring(0, 10) + '...'
TokenPreview(token) == Substring0(token, PreviewLen) \o Ellipsis

UndefinedText == <<"u", "n", "d", "e", "f", "i", "n", "e", "d">>

\* CompanySettingsClient.buildBaseUrl: this.config.baseUrls[environment],
\* undefined for a tag that is not a key of baseUrls
buildBaseUrl(cfg, env) == IF env \in Envs THEN cfg.baseUrls[env] ELSE "undefined"

\* selectedToken?.substring(0, 10) + '...' for this.config.tokens[environment]
SelectedTokenPreview(cfg, env) ==
    IF env \in Envs THEN TokenPreview(cfg.tokens[env])
    ELSE UndefinedText \o Ellipsis

----------------------------------------------------------------------------
(* Request executor: CompanySettingsClient.makeRequest *)

Calls == {"c1", "c2"}

maxAttempts == 3

baseDelayMs == 250

RECURSIVE Pow2(_)
Pow2(n) == IF n <= 0 THEN 1 ELSE 2 * Pow2(n - 1)

BackoffDelayMutant(a) == baseDelayMs * Pow2(a)

\* baseDelayMs * Math.pow(2, attempt - 1)
BackoffDelay(a) == baseDelayMs * Pow2(a - 1)

Statuses == {200, 204, 401, 403, 404, 500}

NetworkFailures == {"timeout of 30000ms exceeded", "connect ECONNREFUSED",
                    "getaddrinfo ENOTFOUND"}

\* a JavaScript value of a raw element's field, held with its string form
\* String(v); a one-element array of a string (what xml2js makes of an
\* element's text) has the string form of its element
JsUndefined == [t |-> "undefined", s |-> UndefinedText]
JsString(s) == [t |-> "string", s |-> s]
JsNumber(digits) == [t |-> "number", s |-> digits]
JsBoolean(b) ==
    [t |-> "boolean",
     s |-> IF b THEN <<"t", "r", "u", "e">> ELSE <<"f", "a", "l", "s", "e">>]
JsArray1(s) == [t |-> "array", s |-> s]

\* String(v)
StringOf(v) == v.s

\* one raw element of the payload as the upstream API sends it; isNull is a
\* null in the place of the element, a flag is held by its truthiness
RawItem(key, value, encoded, encrypted) ==
    [isNull |-> FALSE, settingUuid |-> "u1", setting_uuid |-> "", type |-> "COMPANY",
     key |-> key, value |-> value, encoded |-> encoded, encrypted |-> encrypted,
     owner |-> JsString(<<"5">>), revision |-> JsString(<<"2">>),
     deleted |-> JsString(<<"f", "a", "l", "s", "e">>),
     created |-> "c", modified |-> "m"]

NullItem == [RawItem("", <<>>, FALSE, FALSE) EXCEPT !.isNull = TRUE]

\* the value of a field that may hold the settings: absent (or falsy), an
\* array of elements, one element that is not in an array, or another
\* truthy value that is neither
Absent == [kind |-> "absent", items |-> <<>>]
ArrayOf(items) == [kind |-> "array", items |-> items]
SingleObject(item) == [kind |-> "object", items |-> <<item>>]
Scalar == [kind |-> "scalar", items |-> <<>>]

\* a parsed document: its settingDtoList and its settings.setting
Document(dto, setting) == [settingDtoList |-> dto, setting |-> setting]

NoDocument == Document(Absent, Absent)

\* characters that may precede the payload in a response text
Space == " "
BomFEFF == "\\uFEFF"
BomFFFE == "\\uFFFE"
BomFFFF == "\\uFFFF"

LeadChars == {Space, BomFEFF, BomFFFE, BomFFFF}

\* response.data: a text (leading characters, then a payload written in
\* JSON, in XML with or without an <?xml declaration, or in neither; doc is
\* the document the payload writes down) or an already parsed object
NoData ==
    [type |-> "undefined", lead |-> <<>>, syntax |-> "none", wellFormed |-> FALSE,
     doc |-> NoDocument]

ErrorData ==
    [type |-> "string", lead |-> <<>>, syntax |-> "text", wellFormed |-> FALSE,
     doc |-> NoDocument]

JsonBody(lead, doc) ==
    [type |-> "string", lead |-> lead, syntax |-> "json", wellFormed |-> TRUE,
     doc |-> doc]

XmlBody(lead, declared, elements) ==
    [type |-> "string", lead |-> lead,
     syntax |-> IF declared THEN "xmldecl" ELSE "xml", wellFormed |-> TRUE,
     doc |-> Document(Absent, ArrayOf(elements))]

\* a text that starts like JSON or XML and is cut short
Truncated(body) == [body EXCEPT !.wellFormed = FALSE, !.doc = NoDocument]

ObjectData(doc) ==
    [type |-> "object", lead |-> <<>>, syntax |-> "none", wellFormed |-> TRUE,
     doc |-> doc]

\* what one axios.get settles to: a response (any status, validateStatus is
\* null), a rejected AxiosError (status 0 = no response attached), or
\* another exception
HttpResponse(status, data) ==
    [kind |-> "response", status |-> status, data |-> data, message |-> ""]
AxiosError(status, message) ==
    [kind |-> "axios", status |-> status, data |-> NoData, message |-> message]
OtherError(message) ==
    [kind |-> "other", status |-> 0, data |-> NoData, message |-> message]

NoResponse == [kind |-> "none", status |-> 0, data |-> NoData, message |-> ""]

\* an error message: the template text and the values interpolated into it
Msg(template, status, env, detail) ==
    [template |-> template, status |-> status, env |-> env, detail |-> detail]

NoMsg == Msg("", Undef, "", "")

\* a RequestResult; absent optional fields are NoResponse, NoMsg, Undef, "", <<>>
NoResult ==
    [success |-> FALSE, response |-> NoResponse, error |-> NoMsg,
     status_code |-> Undef, response_text |-> NoData, environment |-> "",
     base_url |-> "", token_preview |-> <<>>]

UnknownError == [NoResult EXCEPT !.error = Msg("Unknown error", Undef, "", "")]

IsSuccessStatusMutant(status) == status >= 200 /\ status < 300

IsSuccessStatusAuthMutant(status) == status \in {200, 401, 403}

\* response.status === 200
IsSuccessStatus(status) == status = 200

\* the result returned for a 200 response
SuccessResult(o) ==
    [NoResult EXCEPT !.success = TRUE, !.response = o, !.status_code = o.status]

ResponseErrorMessageMutant(status, env) ==
    IF status = 403
    THEN Msg("API returned status (Forbidden) for environment. This usually indicates an invalid or expired token for this environment.",
             status, env, "")
    ELSE Msg("API returned status", status, "", "")

\* the error message of a response whose status is not 200
ResponseErrorMessage(status, env) ==
    IF status = 403
    THEN Msg("API returned status (Forbidden) for environment. This usually indicates an invalid or expired token for this environment.",
             status, env, "")
    ELSE IF status = 401
    THEN Msg("API returned status (Unauthorized) for environment. Please check your token for this environment.",
             status, env, "")
    ELSE Msg("API returned status", status, "", "")

\* the failure captured in lastError for one attempt's outcome o
CapturedError(o, env, cfg) ==
    LET preview == SelectedTokenPreview(cfg, env)
        tagged  == [NoResult EXCEPT !.environment = env,
                                    !.base_url = buildBaseUrl(cfg, env),
                                    !.token_preview = preview]
    IN
    CASE o.kind = "response" ->
           [tagged EXCEPT
              !.error = ResponseErrorMessage(o.status, env),
              !.status_code = o.status,
              !.response_text = o.data]
      [] o.kind = "axios" ->
           [tagged EXCEPT
              !.error = IF o.status = 403
                          THEN Msg("Request failed with status (Forbidden) for environment. This usually indicates an invalid or expired token for this environment:",
                                   o.status, env, o.message)
                        ELSE IF o.status = 401
                          THEN Msg("Request failed with status (Unauthorized) for environment. Please check your token for this environment:",
                                   o.status, env, o.message)
                        ELSE IF o.status # 0
                          THEN Msg("Request failed with status:", o.status, "", o.message)
                        ELSE Msg("Request failed:", Undef, "", o.message),
              !.status_code = IF o.status # 0 THEN o.status ELSE Undef,
              !.response_text = o.data]
      [] OTHER ->
           [tagged EXCEPT
              !.error = Msg("Unexpected error for environment:", Undef, env, o.message)]

HasNextAttemptMutant(a) == a < maxAttempts + 1

\* attempt < maxAttempts: another attempt follows this failed one
HasNextAttempt(a) == a < maxAttempts

\* return lastError || { success: false, error: 'Unknown error' }
FinalFailure(le) == IF le = NoResult THEN UnknownError ELSE le

----------------------------------------------------------------------------
(* Value codec: Base64Utils.decode and decodeSetting *)

B64Alphabet ==
    <<"A", "B", "C", "D", "E", "F", "G", "H", "I", "J", "K", "L", "M", "N", "O", "P",
      "Q", "R", "S", "T", "U", "V", "W", "X", "Y", "Z", "a", "b", "c", "d", "e", "f",
      "g", "h", "i", "j", "k", "l", "m", "n", "o", "p", "q", "r", "s", "t", "u", "v",
      "w", "x", "y", "z", "0", "1", "2", "3", "4", "5", "6", "7", "8", "9", "+", "/">>

\* the printable ASCII characters, code 32 first (code 96, the grave accent,
\* is written as an opaque character)
AsciiPrintable ==
    <<" ", "!", "\"", "#", "$", "%", "&", "'", "(", ")", "*", "+", ",", "-", ".", "/",
      "0", "1", "2", "3", "4", "5", "6", "7", "8", "9", ":", ";", "<", "=", ">", "?",
      "@", "A", "B", "C", "D", "E", "F", "G", "H", "I", "J", "K", "L", "M", "N", "O",
      "P", "Q", "R", "S", "T", "U", "V", "W", "X", "Y", "Z", "[", "\\", "]", "^", "_",
      "\\x96", "a", "b", "c", "d", "e", "f", "g", "h", "i", "j", "k", "l", "m", "n", "o",
      "p", "q", "r", "s", "t", "u", "v", "w", "x", "y", "z", "{", "|", "}", "~">>

\* the 6-bit value of a base64 digit (standard or URL-safe), none for others
IsB64Digit(c) == c \in {"-", "_"} \/ \E i \in 1..64 : B64Alphabet[i] = c

B64Value(c) ==
    IF c = "-" THEN 62 ELSE IF c = "_" THEN 63
    ELSE (CHOOSE i \in 1..64 : B64Alphabet[i] = c) - 1

\* the character of one decoded byte; a byte outside printable ASCII and
\* newline, tab, CR is kept as one opaque character (multi-byte UTF-8
\* sequences are not combined)
ByteChar(b) ==
    IF b >= 32 /\ b <= 126 THEN AsciiPrintable[b - 31]
    ELSE IF b = 10 THEN "\n"
    ELSE IF b = 9 THEN "\t"
    ELSE IF b = 13 THEN "\r"
    ELSE "\\x" \o ToString(b)

\* the base64 digits of s that the decoder consumes: it skips every
\* character that is no digit and stops at the first "="
RECURSIVE B64Digits(_)
B64Digits(s) ==
    IF s = <<>> \/ Head(s) = "=" THEN <<>>
    ELSE IF IsB64Digit(Head(s)) THEN <<B64Value(Head(s))>> \o B64Digits(Tail(s))
    ELSE B64Digits(Tail(s))

\* groups of four digits give three bytes; two left over give one byte,
\* three give two, a single one gives none
RECURSIVE B64Bytes(_)
B64Bytes(d) ==
    IF Len(d) < 2 THEN <<>>
    ELSE LET b1 == d[1] * 4 + d[2] \div 16 IN
         IF Len(d) = 2 THEN <<b1>>
         ELSE LET b2 == (d[2] % 16) * 16 + d[3] \div 4 IN
              IF Len(d) = 3 THEN <<b1, b2>>
              ELSE <<b1, b2, (d[3] % 4) * 64 + d[4]>>
                     \o B64Bytes(SubSeq(d, 5, Len(d)))

\* Base64Utils.decode: Buffer.from(s, 'base64').toString('utf-8'); the
\* lenient decoder never throws on a string, so null is never returned
Base64Decode(encodedContent) ==
    LET bytes == B64Bytes(B64Digits(encodedContent))
    IN  [i \in 1..Len(bytes) |-> ByteChar(bytes[i])]

SkipsDecodeMutant(setting) == ~setting.encoded

\* !setting.encoded || setting.encrypted
SkipsDecode(setting) == ~setting.encoded \/ setting.encrypted

decodeSettingMutant(setting) ==
    IF SkipsDecode(setting) THEN setting
    ELSE [setting EXCEPT !.value = Base64Decode(setting.value), !.encoded = FALSE]

\* CompanySettingsClient.decodeSetting
decodeSetting(setting) ==
    IF SkipsDecode(setting) THEN setting
    ELSE [setting EXCEPT !.value = Base64Decode(setting.value)]

----------------------------------------------------------------------------
(* Pagination engine: paginateSettingValue *)

\* String.prototype.split('\n')
RECURSIVE SplitLines(_)
SplitLines(s) ==
    IF \A i \in 1..Len(s) : s[i] # "\n" THEN <<s>>
    ELSE LET i == CHOOSE k \in 1..Len(s) :
                      s[k] = "\n" /\ \A j \in 1..(k - 1) : s[j] # "\n"
         IN  <<SubSeq(s, 1, i - 1)>> \o SplitLines(SubSeq(s, i + 1, Len(s)))

\* Array.prototype.join('\n')
RECURSIVE JoinLines(_)
JoinLines(lines) ==
    IF lines = <<>> THEN <<>>
    ELSE IF Len(lines) = 1 THEN lines[1]
    ELSE lines[1] \o <<"\n">> \o JoinLines(Tail(lines))

\* Array.prototype.slice(start, end) for start, end >= 0
Slice(a, start, end) == SubSeq(a, start + 1, Min(end, Len(a)))

\* JavaScript truthiness of an optional number: undefined and 0 are falsy
Truthy(n) == n # Undef /\ n # 0

EndIndexMutant(limit, startIndex, totalLines) ==
    IF limit # Undef THEN startIndex + limit + 1 ELSE totalLines

\* limit ? startIndex + limit : lines.length
EndIndex(limit, startIndex, totalLines) ==
    IF Truthy(limit) THEN startIndex + limit ELSE totalLines

paginateSettingValueMutant(value, limit, offset) ==
    LET lines      == SplitLines(value)
        totalLines == Len(lines)
        startIndex == IF Truthy(offset) THEN offset ELSE 0
        endIndex   == EndIndex(limit, startIndex, totalLines)
    IN  IF ~Truthy(limit) /\ ~Truthy(offset)
        THEN [lines |-> lines, totalLines |-> totalLines, hasMore |-> FALSE]
        ELSE [lines |-> Slice(lines, startIndex, endIndex),
              totalLines |-> totalLines,
              hasMore |-> endIndex <= totalLines]

\* CompanySettingsClient.paginateSettingValue
paginateSettingValue(value, limit, offset) ==
    LET lines      == SplitLines(value)
        totalLines == Len(lines)
        startIndex == IF Truthy(offset) THEN offset ELSE 0
        endIndex   == EndIndex(limit, startIndex, totalLines)
    IN  IF ~Truthy(limit) /\ ~Truthy(offset)
        THEN [lines |-> lines, totalLines |-> totalLines, hasMore |-> FALSE]
        ELSE [lines |-> Slice(lines, startIndex, endIndex),
              totalLines |-> totalLines,
              hasMore |-> endIndex < totalLines]

----------------------------------------------------------------------------
(* Search engine: searchInSettingValue *)

DefaultContextLines == 3

RegexSyntaxChars ==
    {".", "*", "+", "?", "^", "$", "{", "}", "(", ")", "|", "[", "]", "\\"}

NeedsEscapeMutant(c) == c \in RegexSyntaxChars \ {"."}

\* the character class [.*+?^${}()|[\]\\] of the escaping replace
NeedsEscape(c) == c \in RegexSyntaxChars

\* searchTerm.replace(/[.*+?^${}()|[\]\\]/g, '\\$&')
RECURSIVE EscapeRegExp(_)
EscapeRegExp(term) ==
    IF term = <<>> THEN <<>>
    ELSE (IF NeedsEscape(Head(term)) THEN <<"\\", Head(term)>> ELSE <<Head(term)>>)
           \o EscapeRegExp(Tail(term))

LiteralAtom(c) == [any |-> FALSE, ch |-> c]
AnyAtom == [any |-> TRUE, ch |-> "."]

\* new RegExp(source, 'gi'): the atoms of the pattern.  A backslash makes
\* the next character a literal, an unescaped "." matches any character
\* but a line terminator, every other character outside RegexSyntaxChars is
\* a literal.  ok = FALSE: the source is no sequence of such atoms (a
\* trailing backslash or an unclosed "(" is a SyntaxError; the other
\* unescaped syntax characters build patterns outside this subset).
RECURSIVE CompileRegExp(_)
CompileRegExp(source) ==
    IF source = <<>> THEN [ok |-> TRUE, atoms |-> <<>>]
    ELSE IF Head(source) = "\\"
      THEN IF Len(source) = 1 THEN [ok |-> FALSE, atoms |-> <<>>]
           ELSE LET rest == CompileRegExp(SubSeq(source, 3, Len(source)))
                IN  [ok |-> rest.ok, atoms |-> <<LiteralAtom(source[2])>> \o rest.atoms]
    ELSE IF Head(source) = "."
      THEN LET rest == CompileRegExp(Tail(source))
           IN  [ok |-> rest.ok, atoms |-> <<AnyAtom>> \o rest.atoms]
    ELSE IF Head(source) \in RegexSyntaxChars
      THEN [ok |-> FALSE, atoms |-> <<>>]
    ELSE LET rest == CompileRegExp(Tail(source))
         IN  [ok |-> rest.ok, atoms |-> <<LiteralAtom(Head(source))>> \o rest.atoms]

\* case folding of the i flag (ASCII letters)
Canon(c) ==
    IF \E i \in 34..59 : AsciiPrintable[i] = c
    THEN AsciiPrintable[(CHOOSE i \in 34..59 : AsciiPrintable[i] = c) + 32]
    ELSE c

AtomMatches(atom, c) ==
    IF atom.any THEN c \notin {"\n", "\r"} ELSE Canon(atom.ch) = Canon(c)

\* the atoms match line at 0-based position i
MatchesAt(atoms, line, i) ==
    /\ i + Len(atoms) <= Len(line)
    /\ \A k \in 1..Len(atoms) : AtomMatches(atoms[k], line[i + k])

\* RegExp.prototype.test on a regex with the g flag: the search starts at
\* lastIndex; a match leaves lastIndex just after it, a failure resets it to 0
RegexTest(atoms, line, lastIndex) ==
    LET from == lastIndex
        hits == {i \in from..Len(line) : MatchesAt(atoms, line, i)}
    IN  IF from > Len(line) \/ hits = {}
        THEN [found |-> FALSE, lastIndex |-> 0]
        ELSE LET i == CHOOSE h \in hits : \A g \in hits : h <= g
             IN  [found |-> TRUE, lastIndex |-> i + Len(atoms)]

DigitChars == <<"0", "1", "2", "3", "4", "5", "6", "7", "8", "9">>

\* the decimal rendering of a natural number in a template literal
RECURSIVE Digits(_)
Digits(n) ==
    IF n < 10 THEN <<DigitChars[n + 1]>>
    ELSE Digits(n \div 10) \o <<DigitChars[(n % 10) + 1]>>

MatchPrefix == <<">", ">", ">", " ">>
PlainPrefix == <<" ", " ", " ", " ">>

StartContextMutant(index, contextLines) == Max(0, index - contextLines - 1)

\* Math.max(0, index - contextLines)
StartContext(index, contextLines) == Max(0, index - contextLines)

\* Math.min(lines.length - 1, index + contextLines)
EndContext(lines, index, contextLines) == Min(Len(lines) - 1, index + contextLines)

\* `${prefix}${i + 1}: ${lines[i]}`
ContextEntry(lines, i, index) ==
    (IF i = index THEN MatchPrefix ELSE PlainPrefix)
      \o Digits(i + 1) \o <<":", " ">> \o lines[i + 1]

\* the match pushed for the line at 0-based index
MatchRecord(lines, index, contextLines) ==
    LET startContext == StartContext(index, contextLines)
        endContext   == EndContext(lines, index, contextLines)
    IN  [lineNumber |-> index + 1,
         line       |-> lines[index + 1],
         context    |-> [k \in 1..(endContext - startContext + 1) |->
                            ContextEntry(lines, startContext + k - 1, index)]]

\* lines.forEach from index on, the one regex object carrying lastIndex
\* from each test to the next
RECURSIVE SearchLines(_, _, _, _, _)
SearchLines(lines, atoms, index, lastIndex, contextLines) ==
    IF index >= Len(lines) THEN <<>>
    ELSE LET t == RegexTest(atoms, lines[index + 1], lastIndex)
         IN  (IF t.found THEN <<MatchRecord(lines, index, contextLines)>> ELSE <<>>)
               \o SearchLines(lines, atoms, index + 1, t.lastIndex, contextLines)

\* CompanySettingsClient.searchInSettingValue; threw = the RegExp
\* constructor raised
searchInSettingValue(value, searchTerm, contextLines) ==
    LET lines == SplitLines(value)
        regex == CompileRegExp(EscapeRegExp(searchTerm))
    IN  IF ~regex.ok
        THEN [threw |-> TRUE, matches |-> <<>>, totalMatches |-> 0]
        ELSE LET matches == SearchLines(lines, regex.atoms, 0, 0, contextLines)
             IN  [threw |-> FALSE, matches |-> matches, totalMatches |-> Len(matches)]

----------------------------------------------------------------------------
(* Response normaliser: parseAPIResponse *)

NoPage == [lines |-> <<>>, totalLines |-> 0, hasMore |-> FALSE]

NoSearch == [threw |-> FALSE, matches |-> <<>>, totalMatches |-> 0]

NaN == 0 - 2

HexChars == <<"0", "1", "2", "3", "4", "5", "6", "7", "8", "9",
              "a", "b", "c", "d", "e", "f">>

\* the value of c as a digit of the radix, or NaN
DigitValue(c, radix) ==
    LET lc == Canon(c) IN
    IF \E i \in 1..radix : HexChars[i] = lc
    THEN (CHOOSE i \in 1..radix : HexChars[i] = lc) - 1
    ELSE NaN

\* the number read from the longest prefix of s made of digits of the radix
RECURSIVE ReadDigits(_, _, _)
ReadDigits(s, radix, acc) ==
    IF s = <<>> \/ DigitValue(Head(s), radix) = NaN THEN acc
    ELSE ReadDigits(Tail(s), radix, acc * radix + DigitValue(Head(s), radix))

\* parseInt(string) with no radix argument: an optional sign, then a 0x or
\* 0X prefix selects radix 16, otherwise radix 10; NaN when no digit follows
ParseInt(s) ==
    LET neg  == s # <<>> /\ Head(s) = "-"
        body == IF s # <<>> /\ Head(s) \in {"-", "+"} THEN Tail(s) ELSE s
        hex  == Len(body) >= 2 /\ body[1] = "0" /\ body[2] \in {"x", "X"}
        dig  == IF hex THEN SubSeq(body, 3, Len(body)) ELSE body
        rad  == IF hex THEN 16 ELSE 10
    IN  IF dig = <<>> \/ DigitValue(Head(dig), rad) = NaN THEN NaN
        ELSE IF neg THEN 0 - ReadDigits(dig, rad, 0) ELSE ReadDigits(dig, rad, 0)

\* String.prototype.trim at the start of the text: white space includes
\* U+FEFF and neither U+FFFE nor U+FFFF
JsWhiteSpace == {Space, BomFEFF}

RECURSIVE TrimStart(_)
TrimStart(s) ==
    IF s # <<>> /\ Head(s) \in JsWhiteSpace THEN TrimStart(Tail(s)) ELSE s

\* trimmed.startsWith(...): what the trimmed text starts with, "other" when
\* it is neither of { [ <?xml <
StartsWith(data) ==
    IF TrimStart(data.lead) # <<>> THEN "other"
    ELSE IF data.syntax = "json" THEN "json"
    ELSE IF data.syntax \in {"xml", "xmldecl"} THEN "xml"
    ELSE "other"

\* s.replace(/^[...]/, ''): s without its first character when that is one
\* of chars
StripLeading(s, chars) ==
    IF s # <<>> /\ Head(s) \in chars THEN Tail(s) ELSE s

\* cleanXmlData: responseData with a leading U+FEFF removed, and then a
\* leading U+FEFF, U+FFFE or U+FFFF removed
CleanXmlData(lead) ==
    StripLeading(StripLeading(lead, {BomFEFF}), {BomFEFF, BomFFFE, BomFFFF})

\* the outcome of a parsing step: a document, or a raised error
Parsed(doc) == [raised |-> FALSE, reason |-> "", doc |-> doc]
Raised(reason) == [raised |-> TRUE, reason |-> reason, doc |-> NoDocument]

\* JSON.parse(responseData), on the text as received: only JSON white
\* space may precede the value
JsonParse(data) ==
    IF data.wellFormed /\ \A i \in 1..Len(data.lead) : data.lead[i] = Space
    THEN Parsed(data.doc)
    ELSE Raised("SyntaxError")

\* what xml2js makes of one <setting> element: every child is a
\* one-element array holding the child's text (a non-empty array is
\* truthy; the array in the place of the key is written [key], and is not
\* === to any string)
Xml2jsItem(e) ==
    [e EXCEPT !.key = "[" \o e.key \o "]", !.encoded = TRUE, !.encrypted = TRUE,
              !.owner = JsArray1(StringOf(e.owner)),
              !.revision = JsArray1(StringOf(e.revision)),
              !.deleted = JsArray1(StringOf(e.deleted))]

\* parseXML(cleanXmlData): a byte order mark at the start is skipped by
\* xml2js and by its sax parser, then only white space may precede the
\* root; an element is always delivered in an array, an empty <settings/>
\* as the empty string
ParseXML(lead, data) ==
    LET rest     == StripLeading(StripLeading(lead, {BomFEFF}), {BomFEFF})
        elements == data.doc.setting.items
    IN  IF data.wellFormed /\ \A i \in 1..Len(rest) : rest[i] = Space
        THEN Parsed(Document(Absent,
                             IF elements = <<>> THEN Absent
                             ELSE ArrayOf([i \in 1..Len(elements) |->
                                             Xml2jsItem(elements[i])])))
        ELSE Raised("XML parse error")

\* the first part of the try block: from responseData to data
DetectAndParse(data) ==
    IF data.type = "string"
    THEN CASE StartsWith(data) = "json" -> JsonParse(data)
           [] StartsWith(data) = "xml"  -> ParseXML(CleanXmlData(data.lead), data)
           [] OTHER -> Raised("Unknown response format")
    ELSE IF data.type = "object" THEN Parsed(data.doc)
    ELSE Raised("TypeError")

\* the settings of a document: settingDtoList when truthy, else
\* settings.setting, wrapped in an array when it is not one; listed = FALSE
\* is the early return of the empty list
SelectSettingsMutant(doc) ==
    IF doc.settingDtoList.kind # "absent"
    THEN [listed |-> TRUE, isArray |-> doc.settingDtoList.kind = "array",
          items |-> doc.settingDtoList.items]
    ELSE IF doc.setting.kind = "array"
    THEN [listed |-> TRUE, isArray |-> TRUE, items |-> doc.setting.items]
    ELSE [listed |-> FALSE, isArray |-> TRUE, items |-> <<>>]

SelectSettings(doc) ==
    IF doc.settingDtoList.kind # "absent"
    THEN [listed |-> TRUE, isArray |-> doc.settingDtoList.kind = "array",
          items |-> doc.settingDtoList.items]
    ELSE IF doc.setting.kind # "absent"
    THEN [listed |-> TRUE, isArray |-> TRUE, items |-> doc.setting.items]
    ELSE [listed |-> FALSE, isArray |-> TRUE, items |-> <<>>]

TrueText == <<"t", "r", "u", "e">>

IsDeletedMutant(v) ==
    Len(StringOf(v)) = Len(TrueText)
      /\ \A i \in 1..Len(TrueText) : Canon(StringOf(v)[i]) = TrueText[i]

\* String(setting.deleted) === 'true'
IsDeleted(v) == StringOf(v) = TrueText

\* the mapping of one raw element to a Setting
MapRawSetting(raw) ==
    [setting_uuid |-> IF raw.settingUuid # "" THEN raw.settingUuid ELSE raw.setting_uuid,
     type |-> raw.type, key |-> raw.key, value |-> raw.value,
     encoded |-> raw.encoded, encrypted |-> raw.encrypted,
     owner |-> ParseInt(StringOf(raw.owner)),
     revision |-> ParseInt(StringOf(raw.revision)),
     deleted |-> IsDeleted(raw.deleted),
     created |-> raw.created, modified |-> raw.modified]

\* the try block of parseAPIResponse: the settings, or the error raised in it
ParseSteps(data) ==
    LET parsed == DetectAndParse(data)
        chosen == SelectSettings(parsed.doc)
    IN  IF parsed.raised
        THEN [raised |-> TRUE, reason |-> parsed.reason, settings |-> <<>>]
        ELSE IF ~chosen.isArray
                  \/ \E i \in 1..Len(chosen.items) : chosen.items[i].isNull
        THEN [raised |-> TRUE, reason |-> "TypeError", settings |-> <<>>]
        ELSE [raised |-> FALSE, reason |-> "",
              settings |-> [i \in 1..Len(chosen.items) |->
                              MapRawSetting(chosen.items[i])]]

ParseErrorPrefix == "Failed to parse API response:"

\* what reaches the caller of parseAPIResponse for an error raised in its
\* try block
CatchParseErrorMutant(tried) ==
    IF tried.raised /\ tried.reason = "Unknown response format"
    THEN [threw |-> TRUE, error |-> <<tried.reason>>, reason |-> tried.reason,
          settings |-> <<>>]
    ELSE [threw |-> tried.raised,
          error |-> IF tried.raised THEN <<ParseErrorPrefix, tried.reason>> ELSE <<>>,
          reason |-> tried.reason, settings |-> tried.settings]

CatchParseError(tried) ==
    [threw |-> tried.raised,
     error |-> IF tried.raised THEN <<ParseErrorPrefix, tried.reason>> ELSE <<>>,
     reason |-> tried.reason, settings |-> tried.settings]

\* CompanySettingsClient.parseAPIResponse; threw = it raised "Failed to
\* parse API response: <reason>"
parseAPIResponse(data) == CatchParseError(ParseSteps(data))

NoParse == [threw |-> FALSE, error |-> <<>>, reason |-> "", settings |-> <<>>]

----------------------------------------------------------------------------
(* Tool handlers *)

NoProbe == [probed |-> FALSE, valid |-> FALSE, error |-> NoMsg]

NoProbes == [e \in Envs |-> NoProbe]

\* the payload a handler returns, together with the isError of the tool
\* return it is wrapped in; hasSuccess = the payload has a success field;
\* absent fields hold the defaults below
NoPayload ==
    [kind |-> "none", hasSuccess |-> FALSE, success |-> FALSE, isError |-> FALSE,
     error |-> NoMsg, key |-> "",
     status_code |-> Undef, settings_count |-> 0, value |-> <<>>,
     page |-> NoPage, found |-> NoSearch, request |-> NoResult,
     environments |-> NoProbes, overall_status |-> ""]

\* the failure payload of a handler's catch block and of its not-found exits
FailPayload(template, key, detail, status) ==
    [NoPayload EXCEPT !.kind = "failure", !.hasSuccess = TRUE, !.error = Msg(template, Undef, key, detail),
                      !.key = key, !.status_code = status]

\* the else branch of every handler: the RequestResult itself is returned
RequestFailure(r) ==
    [NoPayload EXCEPT !.kind = "request", !.hasSuccess = TRUE, !.success = r.success, !.error = r.error,
                      !.status_code = r.status_code, !.request = r]

\* settings.find(s => s.key === keyName): the index of the first setting
\* with that key, 0 when there is none
FindByKey(settings, keyName) ==
    IF \E i \in 1..Len(settings) : settings[i].key = keyName
    THEN CHOOSE i \in 1..Len(settings) :
            settings[i].key = keyName /\ \A j \in 1..(i - 1) : settings[j].key # keyName
    ELSE 0

\* handleListCompanySettings after makeRequest resolved to r
handleListCompanySettings(args, r) ==
    IF r.success /\ r.response.kind = "response"
    THEN LET parsed == parseAPIResponse(r.response.data) IN
         IF parsed.threw
         THEN FailPayload("Failed to process settings: Failed to parse API response:",
                          "", parsed.reason, r.status_code)
         ELSE [NoPayload EXCEPT !.kind = "list", !.hasSuccess = TRUE, !.success = TRUE,
                                !.settings_count = Len(parsed.settings),
                                !.status_code = r.status_code]
    ELSE RequestFailure(r)

\* const valueToPage = setting.value
ValueToPage(setting) == setting.value

\* handleGetCompanySetting after makeRequest resolved to r
handleGetCompanySetting(args, r) ==
    IF r.success /\ r.response.kind = "response"
    THEN LET parsed == parseAPIResponse(r.response.data)
             found  == FindByKey(parsed.settings, args.keyName)
         IN
         IF parsed.threw
         THEN FailPayload("Failed to process setting: Failed to parse API response:",
                          "", parsed.reason, r.status_code)
         ELSE IF Len(parsed.settings) = 0 \/ found = 0
         THEN FailPayload("Setting with key not found", args.keyName, "", r.status_code)
         ELSE LET setting == parsed.settings[found] IN
              IF Truthy(args.limit) \/ Truthy(args.offset)
              THEN LET page == paginateSettingValue(ValueToPage(setting),
                                                    args.limit, args.offset)
                   IN  [NoPayload EXCEPT !.kind = "page", !.hasSuccess = TRUE, !.success = TRUE,
                                         !.key = setting.key,
                                         !.value = JoinLines(page.lines),
                                         !.page = page,
                                         !.status_code = r.status_code]
              ELSE [NoPayload EXCEPT !.kind = "single", !.hasSuccess = TRUE, !.success = TRUE,
                                     !.key = setting.key, !.value = setting.value,
                                     !.status_code = r.status_code]
    ELSE RequestFailure(r)

RefusesSearchMutant(setting) == setting.encrypted /\ ~setting.encoded

\* if (setting.encrypted)
RefusesSearch(setting) == setting.encrypted

\* handleSearchInSetting after makeRequest resolved to r
handleSearchInSetting(args, r) ==
    IF r.success /\ r.response.kind = "response"
    THEN LET parsed == parseAPIResponse(r.response.data)
             found  == FindByKey(parsed.settings, args.keyName)
             ctx    == IF args.contextLines = Undef THEN DefaultContextLines
                       ELSE args.contextLines
         IN
         IF parsed.threw
         THEN FailPayload("Failed to search setting: Failed to parse API response:",
                          "", parsed.reason, r.status_code)
         ELSE IF Len(parsed.settings) = 0 \/ found = 0
         THEN FailPayload("Setting with key not found", args.keyName, "", r.status_code)
         ELSE LET setting == parsed.settings[found] IN
              IF RefusesSearch(setting)
              THEN FailPayload("Cannot search in encrypted setting", args.keyName, "",
                               r.status_code)
              ELSE LET res == searchInSettingValue(setting.value, args.searchTerm, ctx) IN
                   IF res.threw
                   THEN FailPayload("Failed to search setting:", "", "SyntaxError",
                                    r.status_code)
                   ELSE IF res.totalMatches = 0
                   THEN [NoPayload EXCEPT !.kind = "nomatch", !.hasSuccess = TRUE, !.success = TRUE,
                                          !.key = args.keyName,
                                          !.status_code = r.status_code]
                   ELSE [NoPayload EXCEPT !.kind = "search", !.hasSuccess = TRUE, !.success = TRUE,
                                          !.key = setting.key,
                                          !.found = res,
                                          !.status_code = r.status_code]
    ELSE RequestFailure(r)

\* toToolReturn: isError is payload && payload.success === false
toToolReturn(payload) ==
    [payload EXCEPT !.isError = payload.hasSuccess /\ ~payload.success]

\* the handler's continuation once makeRequest has resolved, wrapped by
\* the dispatcher
HandlerResult(args, r) ==
    toToolReturn(CASE args.tool = "list_company_settings" ->
                        handleListCompanySettings(args, r)
                   [] args.tool = "get_company_setting" ->
                        handleGetCompanySetting(args, r)
                   [] args.tool = "search_in_setting" ->
                        handleSearchInSetting(args, r)
                   [] OTHER -> NoPayload)

----------------------------------------------------------------------------
(* The text engines applied to bounded inputs *)

\* all sequences over chars of length at most n
RECURSIVE SeqsUpTo(_, _)
SeqsUpTo(chars, n) ==
    IF n = 0 THEN {<<>>}
    ELSE LET shorter == SeqsUpTo(chars, n - 1)
         IN  shorter \cup {Append(s, c) : s \in shorter, c \in chars}

\* a value of n lines, line k holding the digits of k - 1
RECURSIVE NumberedLines(_)
NumberedLines(n) ==
    IF n <= 1 THEN Digits(0)
    ELSE NumberedLines(n - 1) \o <<"\n">> \o Digits(n - 1)

SearchValues ==
    SeqsUpTo({"a", "A", ".", "\n"}, MaxValueLen)
      \cup {<<"a", "a", "A", "(", "\n", "A", ".", "a", "(">>}

SearchTerms ==
    SeqsUpTo({"a", "A", ".", "("}, MaxTermLen)
      \cup {<<"a", ".", "A", "(">>, <<".", "a">>, <<"a", "A">>}

PageValues == SeqsUpTo({"a", "\n"}, MaxPageLen) \cup {NumberedLines(10)}

Limits == {Undef} \cup 0..MaxLimit

Offsets == {Undef} \cup 0..MaxOffset \cup {20}

CodecValues ==
    SeqsUpTo({"Y", "W", "Q", "E", "="}, MaxCodecLen)
      \cup {<<"a", "G", "V", "s", "b", "G", "8", "=">>, <<"a", "\n", "A">>}

\* raw elements that differ in owner, revision and deleted
OwnerTexts ==
    {<<"5">>, <<"2">>, <<"1", "0">>, <<"0", "1", "0">>, <<"0", "x", "1", "0">>,
     <<"0", "X", "f">>, <<"-", "3">>, <<"a", "b", "c">>, <<>>}

DeletedTexts ==
    {<<"t", "r", "u", "e">>, <<"f", "a", "l", "s", "e">>, <<"T", "R", "U", "E">>,
     <<"T", "r", "u", "e">>, <<"1">>, <<"t", "r", "u", "e", " ">>, <<>>}

JsValues(texts) ==
    {JsString(t) : t \in texts}
      \cup {JsUndefined, JsBoolean(TRUE), JsBoolean(FALSE), JsNumber(<<"7">>)}

PlainItem == RawItem("k", <<"d", "j", "E", "=">>, TRUE, FALSE)

Items ==
    {[PlainItem EXCEPT !.owner = o, !.revision = JsString(<<"2">>)] :
        o \in JsValues(OwnerTexts)}
      \cup {[PlainItem EXCEPT !.revision = r] : r \in JsValues(OwnerTexts)}
      \cup {[PlainItem EXCEPT !.deleted = d] : d \in JsValues(DeletedTexts)}
      \cup {[PlainItem EXCEPT !.settingUuid = "", !.setting_uuid = "u2"]}

ItemLists ==
    {<<>>, <<NullItem>>, <<PlainItem, RawItem("k2", <<"x">>, FALSE, TRUE)>>}
      \cup {<<it>> : it \in Items}

Documents ==
    {Document(ArrayOf(l), Absent) : l \in ItemLists}
      \cup {Document(Absent, ArrayOf(l)) : l \in ItemLists}
      \cup {Document(Absent, SingleObject(it)) : it \in Items \cup {NullItem}}
      \cup {NoDocument, Document(Scalar, Absent),
            Document(ArrayOf(<<PlainItem>>), ArrayOf(<<RawItem("k2", <<"x">>, FALSE, TRUE)>>)),
            Document(ArrayOf(<<>>), SingleObject(PlainItem))}

Leads == SeqsUpTo(LeadChars, MaxLeadLen)

\* inputs that are not a well-formed text: cut-short JSON and XML, a text
\* that is neither, an object that is already parsed, and undefined
OtherData ==
    {Truncated(JsonBody(<<>>, NoDocument)), Truncated(XmlBody(<<>>, FALSE, <<>>)),
     ErrorData, NoData}
      \cup {ObjectData(doc) : doc \in Documents}

\* a Setting with the given value and flags
MakeSetting(key, value, encoded, encrypted) ==
    [setting_uuid |-> "u1", type |-> "COMPANY", key |-> key, value |-> value,
     encoded |-> encoded, encrypted |-> encrypted, owner |-> 5, revision |-> 2,
     deleted |-> FALSE, created |-> "c", modified |-> "m"]

NoSetting == MakeSetting("", <<>>, FALSE, FALSE)

TxtIdle ==
    [op |-> "idle", done |-> FALSE, setting |-> NoSetting, once |-> NoSetting,
     twice |-> NoSetting, value |-> <<>>, limit |-> Undef, offset |-> Undef,
     page |-> NoPage, term |-> <<>>, contextLines |-> 0, found |-> NoSearch,
     windows |-> <<>>, pages |-> <<>>, data |-> NoData, parsed |-> NoParse]

\* the calls of the three engines that are tried
DecodeInput(value, encoded, encrypted) ==
    [TxtIdle EXCEPT !.op = "decode",
                    !.setting = MakeSetting("k", value, encoded, encrypted)]

PaginateInput(value, limit, offset) ==
    [TxtIdle EXCEPT !.op = "paginate", !.value = value, !.limit = limit,
                    !.offset = offset]

SearchInput(value, term, contextLines) ==
    [TxtIdle EXCEPT !.op = "search", !.value = value, !.term = term,
                    !.contextLines = contextLines]

\* read a value page by page from its first line
TileInput(value, limit) ==
    [TxtIdle EXCEPT !.op = "tile", !.value = value, !.limit = limit]

\* search first, then paginate from a reported line number
LocateInput(value, term, limit) ==
    [TxtIdle EXCEPT !.op = "locate", !.value = value, !.term = term,
                    !.limit = limit]

ParseInput(data) == [TxtIdle EXCEPT !.op = "parse", !.data = data]

\* decodeSetting applied to the setting, and again to its result
ApplyDecode ==
    /\ txt.op = "decode" /\ ~txt.done
    /\ LET once == decodeSetting(txt.setting)
       IN  txt' = [txt EXCEPT !.done = TRUE, !.once = once,
                              !.twice = decodeSetting(once)]

ApplyPaginate ==
    /\ txt.op = "paginate" /\ ~txt.done
    /\ txt' = [txt EXCEPT !.done = TRUE,
                          !.page = paginateSettingValue(txt.value, txt.limit, txt.offset)]

\* paginateSettingValue called with the offsets offset, offset + limit, ...
\* for as long as the page returned has hasMore = true; a value of n
\* characters has at most n + 1 lines, which bounds the pages read
RECURSIVE ReadPages(_, _, _, _)
ReadPages(value, limit, offset, left) ==
    LET page == paginateSettingValue(value, limit, offset) IN
    IF page.hasMore /\ left > 0
    THEN <<page>> \o ReadPages(value, limit, offset + limit, left - 1)
    ELSE <<page>>

ApplyTile ==
    /\ txt.op = "tile" /\ ~txt.done
    /\ txt' = [txt EXCEPT !.done = TRUE,
                          !.pages = ReadPages(txt.value, txt.limit, 0, Len(txt.value) + 1)]

ApplySearch ==
    /\ txt.op = "search" /\ ~txt.done
    /\ txt' = [txt EXCEPT !.done = TRUE,
                          !.found = searchInSettingValue(txt.value, txt.term,
                                                         txt.contextLines)]

\* searchInSettingValue, then for each match paginateSettingValue with the
\* match's lineNumber passed as offset
ApplyLocate ==
    /\ txt.op = "locate" /\ ~txt.done
    /\ LET found == searchInSettingValue(txt.value, txt.term, DefaultContextLines)
       IN  txt' = [txt EXCEPT
                     !.done = TRUE, !.found = found,
                     !.windows = [i \in 1..Len(found.matches) |->
                                    paginateSettingValue(txt.value, txt.limit,
                                                         found.matches[i].lineNumber)]]

ApplyParse ==
    /\ txt.op = "parse" /\ ~txt.done
    /\ txt' = [txt EXCEPT !.done = TRUE, !.parsed = parseAPIResponse(txt.data)]

----------------------------------------------------------------------------
(* Token verifier: verifyEnvironmentTokens and handleVerifyTokens *)

ProbePath == "/setting/company/1"

\* the probe of one environment: axios.get(testUrl) with that environment's
\* bearer token, called by the verifier itself
ProbeRequest(cfg, env) ==
    [environment |-> env, url |-> <<cfg.baseUrls[env], ProbePath>>,
     token |-> cfg.tokens[env], via |-> "axios.get"]

\* axios.get with validateStatus: status < 500: a response of status 500 or
\* more is rejected as an AxiosError carrying that status
ProbeSettles(o) ==
    IF o.kind = "response" /\ o.status >= 500
    THEN AxiosError(o.status, "Request failed with status code")
    ELSE o

IsAuthFailureMutant(status) == status >= 400 /\ status < 500

\* status === 401 || status === 403
IsAuthFailure(status) == status \in {401, 403}

\* the entry results[env] written for one probe outcome
ClassifyProbe(o, env) ==
    LET p == ProbeSettles(o) IN
    IF p.kind \in {"response", "axios"} /\ IsAuthFailure(p.status)
    THEN [probed |-> TRUE, valid |-> FALSE,
          error |-> Msg("Authentication failed - token appears to be invalid or expired for environment",
                        p.status, env, "")]
    ELSE IF p.kind = "response"
    THEN [probed |-> TRUE, valid |-> TRUE, error |-> NoMsg]
    ELSE IF p.kind = "axios"
    THEN [probed |-> TRUE, valid |-> TRUE,
          error |-> Msg("Network error:", IF p.status # 0 THEN p.status ELSE Undef,
                        "", p.message)]
    ELSE [probed |-> TRUE, valid |-> FALSE,
          error |-> Msg("Unexpected error testing environment:", Undef, env, p.message)]

VerifySummaryMutant(results) ==
    [NoPayload EXCEPT !.kind = "verify", !.hasSuccess = TRUE, !.success = TRUE,
                      !.environments = results,
                      !.overall_status = IF \E e \in Envs : results[e].valid
                                         THEN "All tokens valid"
                                         ELSE "Some tokens have issues"]

\* handleVerifyTokens' summary of the verifier's results
VerifySummary(results) ==
    [NoPayload EXCEPT !.kind = "verify", !.hasSuccess = TRUE, !.success = TRUE,
                      !.environments = results,
                      !.overall_status = IF \A e \in Envs : results[e].valid
                                         THEN "All tokens valid"
                                         ELSE "Some tokens have issues"]

\* the three [DEBUG] lines that carry the credential preview
LogPreview(source, env, cfg) ==
    [source |-> source, environment |-> env,
     preview |-> SelectedTokenPreview(cfg, env)]

----------------------------------------------------------------------------
(* The server: main, one tool call per call id *)

Bodies ==
    {JsonBody(<<>>, Document(ArrayOf(<<RawItem("k", <<"a", "G", "V", "s", "b", "G", "8", "=">>, TRUE, FALSE)>>), Absent)),
     JsonBody(<<>>, Document(ArrayOf(<<RawItem("k", <<"a", "G", "V", "s", "b", "G", "8", "=">>, TRUE, TRUE)>>), Absent)),
     JsonBody(<<>>, Document(ArrayOf(<<RawItem("k2", <<"x">>, FALSE, FALSE),
                RawItem("k", <<"a", "l", "\n", "L", "\n", "b">>, FALSE, FALSE)>>), Absent)),
     JsonBody(<<>>, Document(ArrayOf(<<RawItem("k2", <<"x">>, FALSE, FALSE)>>), Absent)),
     JsonBody(<<>>, Document(ArrayOf(<<>>), Absent)),
     JsonBody(<<>>, NoDocument),
     XmlBody(<<>>, TRUE, <<RawItem("k", <<"l">>, FALSE, FALSE)>>),
     ErrorData}

Outcomes ==
    {HttpResponse(200, b) : b \in Bodies}
      \cup {HttpResponse(st, ErrorData) : st \in Statuses \ {200}}
      \cup {AxiosError(0, m) : m \in NetworkFailures}
      \cup {OtherError("unexpected")}

\* the outcomes of a token probe: only the status matters
ProbeOutcomes ==
    {HttpResponse(st, ErrorData) : st \in Statuses}
      \cup {AxiosError(0, "timeout of 30000ms exceeded"), OtherError("unexpected")}

\* request.params: the tool name and the arguments (given = FALSE: none)
Args(tool, env, limit, offset, term, ctx) ==
    [tool |-> tool, given |-> TRUE, environment |-> env, companyId |-> 1,
     keyName |-> "k",
     limit |-> limit, offset |-> offset, searchTerm |-> term, contextLines |-> ctx]

NoArgs == [Args("", "", Undef, Undef, <<>>, Undef) EXCEPT !.given = FALSE]

RequestTools == {"list_company_settings", "get_company_setting", "search_in_setting"}

\* a tool name the dispatcher's switch has no case for
UnknownTool == "unknown_tool"

\* an environment tag that is none of pd, in, ac
UnknownEnv == "xx"

RequestArgs ==
    {Args("list_company_settings", e, Undef, Undef, <<>>, Undef) : e \in Envs}
      \cup {Args("get_company_setting", e, lo[1], lo[2], <<>>, Undef) :
              e \in Envs,
              lo \in {<<Undef, Undef>>, <<0, Undef>>, <<2, 1>>, <<Undef, 1>>}}
      \cup {Args("get_company_setting", UnknownEnv, Undef, Undef, <<>>, Undef)}
      \cup {Args("search_in_setting", e, Undef, Undef, tc[1], tc[2]) :
              e \in Envs, tc \in {<<<<"l">>, Undef>>, <<<<"l">>, 0>>, <<<<"z">>, Undef>>}}

VerifyArgs ==
    [Args("verify_environment_tokens", "", Undef, Undef, <<>>, Undef) EXCEPT
        !.given = FALSE]

NoVerify == [next |-> 0, results |-> NoProbes, outcomes |-> <<>>, probes |-> <<>>]

InitCalls(active) ==
    /\ pc = [c \in Calls |-> IF c \in active THEN "idle" ELSE "off"]
    /\ call = [c \in Calls |-> NoArgs]
    /\ attempt = [c \in Calls |-> 0]
    /\ lastError = [c \in Calls |-> NoResult]
    /\ requests = [c \in Calls |-> 0]
    /\ received = [c \in Calls |-> <<>>]
    /\ waits = [c \in Calls |-> <<>>]
    /\ verify = [c \in Calls |-> NoVerify]
    /\ reqResult = [c \in Calls |-> NoResult]
    /\ toolResult = [c \in Calls |-> NoPayload]

Init ==
    /\ procEnv \in ProcEnvs
    /\ server = "starting"
    /\ config = NoConfig
    /\ log = {}
    /\ InitCalls({"c1"})
    /\ txt = TxtIdle

\* main(): loadConfig and validateToken, then the server runs; a thrown
\* configuration error or a rejected default token ends the process
Main ==
    /\ server = "starting"
    /\ \E tokenValid \in BOOLEAN :
         server' = IF loadConfig(procEnv).ok /\ tokenValid THEN "running" ELSE "exited"
    /\ UNCHANGED <<procEnv, config, log, pc, call, attempt, lastError, requests,
                   received, waits, verify, reqResult, toolResult, txt>>

DispatchErrorMutant(detail) ==
    [NoPayload EXCEPT !.kind = "dispatch", !.error = Msg(detail, Undef, "", "")]

\* the tool return of the dispatcher's catch block: the payload is
\* { error: errorMessage }, with no success field, and isError is true
DispatchError(detail) ==
    [NoPayload EXCEPT !.kind = "dispatch", !.isError = TRUE,
                      !.error = Msg(detail, Undef, "", "")]

\* a call the dispatcher's try block throws on before any handler reaches
\* makeRequest: a tool name that is none of the four, or a request tool
\* called without arguments (the handler's destructuring throws)
CallRejected(c) ==
    /\ server = "running"
    /\ pc[c] = "idle"
    /\ \E tool \in RequestTools \cup {UnknownTool} :
         /\ call' = [call EXCEPT ![c] = [NoArgs EXCEPT !.tool = tool]]
         /\ toolResult' = [toolResult EXCEPT
                             ![c] = DispatchError(IF tool = UnknownTool
                                                  THEN "Unknown tool:"
                                                  ELSE "TypeError")]
         /\ pc' = [pc EXCEPT ![c] = "done"]
    /\ UNCHANGED <<procEnv, server, config, log, attempt, lastError, requests,
                   received, waits, verify, reqResult, txt>>

\* a request tool is called: the handler runs buildBaseUrl and makeRequest
\* up to the first axios.get
CallToolIn(c, requestArgs) ==
    /\ server = "running"
    /\ pc[c] = "idle"
    /\ \E args \in requestArgs :
         LET cfg == getConfig(config, procEnv) IN
         /\ config' = cfg
         /\ call' = [call EXCEPT ![c] = args]
         /\ IF cfg.ok
            THEN /\ log' = log \cup {LogPreview("makeRequest", args.environment, cfg)}
                 /\ attempt' = [attempt EXCEPT ![c] = 1]
                 /\ requests' = [requests EXCEPT ![c] = 1]
                 /\ pc' = [pc EXCEPT ![c] = "await"]
                 /\ UNCHANGED toolResult
            ELSE /\ toolResult' = [toolResult EXCEPT ![c] = DispatchError("Configuration error")]
                 /\ pc' = [pc EXCEPT ![c] = "done"]
                 /\ UNCHANGED <<log, attempt, requests>>
    /\ UNCHANGED <<procEnv, server, lastError, received, waits, verify, reqResult, txt>>

CallTool(c) == CallToolIn(c, RequestArgs)

SettlesMutant(o) ==
    o.kind = "response" /\ o.status = 200 /\ ~parseAPIResponse(o.data).threw

\* if (response.status === 200) return: the outcome that ends the loop
Settles(o) == o.kind = "response" /\ IsSuccessStatus(o.status)

StoreLastErrorMutant(errors, c, le) == [d \in Calls |-> le]

\* lastError = {...}: makeRequest's local variable of the call c
StoreLastError(errors, c, le) == [errors EXCEPT ![c] = le]

\* the pending axios.get of makeRequest settles with outcome o
RespondIn(c, outcomes) ==
    /\ pc[c] = "await"
    /\ \E o \in outcomes :
         LET env == call[c].environment
             st  == IF o.kind = "response" THEN o.status ELSE 0
         IN
         /\ received' = [received EXCEPT ![c] = Append(@, st)]
         /\ IF Settles(o)
            THEN /\ reqResult' = [reqResult EXCEPT ![c] = SuccessResult(o)]
                 /\ toolResult' = [toolResult EXCEPT
                                     ![c] = HandlerResult(call[c], SuccessResult(o))]
                 /\ pc' = [pc EXCEPT ![c] = "done"]
                 /\ UNCHANGED <<attempt, lastError, waits>>
            ELSE LET le == CapturedError(o, env, config) IN
                 /\ lastError' = StoreLastError(lastError, c, le)
                 /\ IF HasNextAttempt(attempt[c])
                    THEN /\ waits' = [waits EXCEPT ![c] = Append(@, BackoffDelay(attempt[c]))]
                         /\ pc' = [pc EXCEPT ![c] = "backoff"]
                         /\ UNCHANGED <<attempt, reqResult, toolResult>>
                    ELSE /\ attempt' = [attempt EXCEPT ![c] = @ + 1]
                         /\ reqResult' = [reqResult EXCEPT ![c] = FinalFailure(le)]
                         /\ toolResult' = [toolResult EXCEPT
                                             ![c] = HandlerResult(call[c], FinalFailure(le))]
                         /\ pc' = [pc EXCEPT ![c] = "done"]
                         /\ UNCHANGED waits
    /\ UNCHANGED <<procEnv, server, config, log, call, requests, verify, txt>>

Respond(c) == RespondIn(c, Outcomes)

\* the backoff timer fires: the loop increments attempt and issues the
\* next axios.get
BackoffDone(c) ==
    /\ pc[c] = "backoff"
    /\ attempt' = [attempt EXCEPT ![c] = @ + 1]
    /\ requests' = [requests EXCEPT ![c] = @ + 1]
    /\ pc' = [pc EXCEPT ![c] = "await"]
    /\ UNCHANGED <<procEnv, server, config, log, call, lastError, received, waits,
                   verify, reqResult, toolResult, txt>>

\* verify_environment_tokens is called: the loop logs the first
\* environment's preview and issues its probe
CallVerify(c) ==
    /\ server = "running"
    /\ pc[c] = "idle"
    /\ LET cfg == getConfig(config, procEnv) IN
       /\ config' = cfg
       /\ call' = [call EXCEPT ![c] = VerifyArgs]
       /\ IF cfg.ok
          THEN /\ log' = log \cup {LogPreview("verifyEnvironmentTokens", EnvSeq[1], cfg)}
               /\ verify' = [verify EXCEPT ![c] = [next |-> 1, results |-> NoProbes,
                                                     outcomes |-> <<>>,
                                                     probes |-> <<ProbeRequest(cfg, EnvSeq[1])>>]]
               /\ pc' = [pc EXCEPT ![c] = "probe"]
               /\ UNCHANGED toolResult
          ELSE /\ toolResult' = [toolResult EXCEPT
                                   ![c] = toToolReturn(VerifySummary([e \in Envs |->
                                            [probed |-> TRUE, valid |-> FALSE,
                                             error |-> Msg("Unexpected error testing environment:",
                                                           Undef, e, "Configuration error")]]))]
               /\ pc' = [pc EXCEPT ![c] = "done"]
               /\ UNCHANGED <<log, verify>>
    /\ UNCHANGED <<procEnv, server, attempt, lastError, requests, received, waits,
                   reqResult, txt>>

\* the pending probe settles: its environment is classified, then either
\* the next environment is probed or the summary is returned
ProbeRespond(c) ==
    /\ pc[c] = "probe"
    /\ \E o \in ProbeOutcomes :
         LET i       == verify[c].next
             results == [verify[c].results EXCEPT
                           ![EnvSeq[i]] = ClassifyProbe(o, EnvSeq[i])]
             probed  == [next |-> i + 1, results |-> results,
                         outcomes |-> Append(verify[c].outcomes, o),
                         probes |-> verify[c].probes]
         IN
         IF i < Len(EnvSeq)
         THEN /\ verify' = [verify EXCEPT
                              ![c] = [probed EXCEPT
                                        !.probes = Append(@, ProbeRequest(config, EnvSeq[i + 1]))]]
              /\ log' = log \cup {LogPreview("verifyEnvironmentTokens", EnvSeq[i + 1], config)}
              /\ UNCHANGED <<pc, toolResult>>
         ELSE /\ verify' = [verify EXCEPT ![c] = probed]
              /\ toolResult' = [toolResult EXCEPT
                                  ![c] = toToolReturn(VerifySummary(results))]
              /\ pc' = [pc EXCEPT ![c] = "done"]
              /\ UNCHANGED log
    /\ UNCHANGED <<procEnv, server, config, call, attempt, lastError, requests,
                   received, waits, reqResult, txt>>

Next ==
    \/ Main
    \/ \E c \in Calls : CallTool(c)
    \/ \E c \in Calls : CallRejected(c)
    \/ \E c \in Calls : Respond(c)
    \/ \E c \in Calls : BackoffDone(c)
    \/ \E c \in Calls : CallVerify(c)
    \/ \E c \in Calls : ProbeRespond(c)

Spec == Init /\ [][Next]_vars

----------------------------------------------------------------------------
(* Two tool calls in flight at once on one server *)

\* the calls of the pair: the same key, in the same or in another environment
PairArgs ==
    {Args("get_company_setting", e, Undef, Undef, <<>>, Undef) : e \in {"pd", "in"}}

\* one outcome per status, so that a call's responses are known from the
\* statuses it received
PairOutcomes ==
    {HttpResponse(200, JsonBody(<<>>, Document(ArrayOf(<<RawItem("k", <<"x">>, FALSE, FALSE)>>), Absent))),
     HttpResponse(401, ErrorData),
     AxiosError(0, "timeout of 30000ms exceeded")}

InitPair ==
    /\ procEnv \in ProcEnvs
    /\ server = "starting"
    /\ config = NoConfig
    /\ log = {}
    /\ InitCalls(Calls)
    /\ txt = TxtIdle

NextPair ==
    \/ Main
    \/ \E c \in Calls : CallToolIn(c, PairArgs)
    \/ \E c \in Calls : RespondIn(c, PairOutcomes)
    \/ \E c \in Calls : BackoffDone(c)

SpecPair == InitPair /\ [][NextPair]_vars

----------------------------------------------------------------------------
(* The text engines as a specification of their own *)

InitText ==
    /\ procEnv \in {[TOKEN_PD |-> Unset, TOKEN_IN |-> Unset, TOKEN_AC |-> Unset,
                     TOKEN |-> Unset]}
    /\ server = "starting"
    /\ config = NoConfig
    /\ log = {}
    /\ InitCalls({})
    /\ \/ \E value \in CodecValues, encoded \in BOOLEAN, encrypted \in BOOLEAN :
             txt = DecodeInput(value, encoded, encrypted)
       \/ \E value \in PageValues, limit \in Limits, offset \in Offsets :
             txt = PaginateInput(value, limit, offset)
       \/ \E value \in PageValues, limit \in 1..MaxLimit :
             txt = TileInput(value, limit)
       \/ \E value \in SearchValues, term \in SearchTerms,
              contextLines \in 0..MaxContextLines :
             txt = SearchInput(value, term, contextLines)
       \/ \E value \in SearchValues, term \in SearchTerms, limit \in 1..MaxLimit :
             txt = LocateInput(value, term, limit)
       \/ \E lead \in Leads, doc \in Documents :
             txt = ParseInput(JsonBody(lead, doc))
       \/ \E lead \in Leads, declared \in BOOLEAN,
              elements \in ItemLists \ {<<NullItem>>} :
             txt = ParseInput(XmlBody(lead, declared, elements))
       \/ \E lead \in Leads, data \in OtherData :
             txt = ParseInput([data EXCEPT !.lead = IF data.type = "string"
                                                    THEN lead ELSE <<>>])

NextText ==
    \/ ApplyDecode /\ UNCHANGED reqVars
    \/ ApplyPaginate /\ UNCHANGED reqVars
    \/ ApplyTile /\ UNCHANGED reqVars
    \/ ApplySearch /\ UNCHANGED reqVars
    \/ ApplyLocate /\ UNCHANGED reqVars
    \/ ApplyParse /\ UNCHANGED reqVars

SpecText == InitText /\ [][NextText]_vars

----------------------------------------------------------------------------
(* Properties of the request executor *)

\* the call went through makeRequest and makeRequest has returned
Returned(c) ==
    pc[c] = "done" /\ call[c].tool \in RequestTools /\ call[c].given /\ config.ok

\* the status_code a captured failure carries for a settled request
CapturedStatus(st) == IF st = 0 THEN Undef ELSE st

\* C1: makeRequest issues its requests one after another and at most 3 of
\* them; when no attempt returned 200 exactly 3 were issued and the result
\* is the failure captured on the third; a 200 on attempt k ends the call
\* with exactly k requests issued.
C1_AttemptsSequentialAtMostThree ==
    \A c \in Calls :
        /\ requests[c] <= 3
        /\ Len(received[c]) <= requests[c]
        /\ requests[c] <= Len(received[c]) + 1
        /\ pc[c] = "await" <=> requests[c] = Len(received[c]) + 1
        /\ \A k \in 1..Len(received[c]) :
              received[c][k] = 200 =>
                 /\ k = Len(received[c])
                 /\ requests[c] = k
                 /\ pc[c] = "done"
                 /\ reqResult[c].success
        /\ (Returned(c) /\ \A k \in 1..Len(received[c]) : received[c][k] # 200) =>
              /\ requests[c] = 3
              /\ Len(received[c]) = 3
              /\ ~reqResult[c].success
              /\ reqResult[c] = lastError[c]
              /\ reqResult[c].status_code = CapturedStatus(received[c][3])

C1_Witness ==
    \E c \in Calls :
        /\ Returned(c)
        /\ received[c] = <<500, 500, 500>>
        /\ requests[c] = 3
        /\ reqResult[c].status_code = 500

\* C2: makeRequest always resolves to a RequestResult: success is true
\* exactly when some attempt returned status 200, and a failure carries an
\* error message, whatever statuses and exceptions the attempts met.
C2_AlwaysResolvesToResult ==
    \A c \in Calls :
        /\ pc[c] \in {"off", "idle", "await", "backoff", "probe", "done"}
        /\ Returned(c) =>
              /\ reqResult[c].success \in BOOLEAN
              /\ reqResult[c].success <=>
                    \E k \in 1..Len(received[c]) : received[c][k] = 200
              /\ ~reqResult[c].success => reqResult[c].error # NoMsg
              /\ reqResult[c].success => reqResult[c].response.kind = "response"

C2_Witness ==
    \E c \in Calls :
        /\ Returned(c)
        /\ received[c] = <<404, 0, 0>>
        /\ ~reqResult[c].success
        /\ reqResult[c].error.template = "Request failed:"

\* C3: no RequestResult and no log line of makeRequest or of the token
\* verifier contains the full credential of its environment.
C3_NoFullCredential ==
    config.ok =>
        /\ \A l \in log :
              l.environment \in Envs =>
                 ~Contains(l.preview, config.tokens[l.environment])
        /\ \A c \in Calls :
              (lastError[c] # NoResult /\ lastError[c].environment \in Envs) =>
                 ~Contains(lastError[c].token_preview,
                           config.tokens[lastError[c].environment])

\* the setting the handler selected from the 200 response of call c
FetchedSetting(c) ==
    LET settings == parseAPIResponse(reqResult[c].response.data).settings
    IN  settings[FindByKey(settings, call[c].keyName)]

\* C4: for a fetched setting with encoded = true and encrypted = false the
\* value get_company_setting returns and paginates, and the value
\* search_in_setting searches, is the base64-decoded text.
C4_DecodedValueReachesEngines ==
    \A c \in Calls :
        (pc[c] = "done" /\ toolResult[c].kind \in {"single", "page", "search", "nomatch"}
           /\ FetchedSetting(c).encoded /\ ~FetchedSetting(c).encrypted) =>
            LET decoded == decodeSetting(FetchedSetting(c)).value
                ctx     == IF call[c].contextLines = Undef THEN DefaultContextLines
                           ELSE call[c].contextLines
            IN  CASE toolResult[c].kind = "single" -> toolResult[c].value = decoded
                  [] toolResult[c].kind = "page" ->
                       toolResult[c].page =
                          paginateSettingValue(decoded, call[c].limit, call[c].offset)
                  [] OTHER ->
                       LET res == searchInSettingValue(decoded, call[c].searchTerm, ctx)
                       IN  /\ (toolResult[c].kind = "nomatch") = (res.totalMatches = 0)
                           /\ toolResult[c].kind = "search" => toolResult[c].found = res

----------------------------------------------------------------------------
(* Properties of the text engines *)

Decoded == txt.op = "decode" /\ txt.done
Paginated == txt.op = "paginate" /\ txt.done
Searched == txt.op = "search" /\ txt.done

\* C5: decodeSetting returns the setting unchanged whenever encrypted is
\* true or encoded is false; on a setting with encoded = false a second
\* application is a no-op as well.
C5_EncryptedOrPlainUnchanged ==
    Decoded =>
        /\ (txt.setting.encrypted \/ ~txt.setting.encoded) => txt.once = txt.setting
        /\ ~txt.setting.encoded => txt.twice = txt.setting

C5_Witness ==
    /\ Decoded
    /\ txt.setting.encrypted /\ txt.setting.encoded
    /\ txt.setting.value = <<"a", "G", "V", "s", "b", "G", "8", "=">>
    /\ txt.once.value = <<"a", "G", "V", "s", "b", "G", "8", "=">>

\* the case-folded text
Fold(s) == [i \in 1..Len(s) |-> Canon(s[i])]

\* line contains term as a literal substring, ignoring case
LineContains(line, term) == Contains(Fold(line), Fold(term))

\* the 1-based numbers of the lines of value that contain term, ascending
RECURSIVE ContainingLines(_, _, _)
ContainingLines(lines, term, n) ==
    IF n > Len(lines) THEN <<>>
    ELSE (IF LineContains(lines[n], term) THEN <<n>> ELSE <<>>)
           \o ContainingLines(lines, term, n + 1)

\* C6: the matches are exactly the lines that contain the term, each once,
\* in ascending line order, and totalMatches is their number.
C6_MatchesExactlyContainingLines ==
    Searched =>
        LET lines    == SplitLines(txt.value)
            expected == ContainingLines(lines, txt.term, 1)
        IN  /\ ~txt.found.threw
            /\ txt.found.totalMatches = Len(expected)
            /\ [k \in 1..Len(txt.found.matches) |-> txt.found.matches[k].lineNumber]
                 = expected

\* C7: no term makes the pattern construction fail, and every reported
\* match is a line in which the term occurs literally (ignoring case): a
\* term with pattern metacharacters never matches as a pattern.
C7_TermMatchedLiterally ==
    Searched =>
        /\ ~txt.found.threw
        /\ \A k \in 1..Len(txt.found.matches) :
              LineContains(txt.found.matches[k].line, txt.term)

C7_Witness ==
    /\ Searched
    /\ txt.term = <<"a", ".", "A", "(">>
    /\ txt.value = <<"a", "a", "A", "(", "\n", "A", ".", "a", "(">>
    /\ txt.found.totalMatches = 1
    /\ txt.found.matches[1].lineNumber = 2

\* C8: a match at 0-based index i has lineNumber i + 1, the raw line, and a
\* context block of the lines max(0, i - contextLines) ..
\* min(lastIndex, i + contextLines) in order, each rendered with its
\* 1-based number; the matched line alone carries ">>> ", the others four
\* spaces.
C8_MatchRecordAndContext ==
    Searched =>
        LET lines == SplitLines(txt.value) IN
        \A k \in 1..Len(txt.found.matches) :
            LET m  == txt.found.matches[k]
                i  == m.lineNumber - 1
                lo == Max(0, i - txt.contextLines)
                hi == Min(Len(lines) - 1, i + txt.contextLines)
            IN  /\ m.lineNumber \in 1..Len(lines)
                /\ m.line = lines[i + 1]
                /\ Len(m.context) = hi - lo + 1
                /\ \A j \in lo..hi :
                      LET entry == m.context[j - lo + 1]
                          num   == Digits(j + 1)
                      IN  /\ SubSeq(entry, 1, 4) =
                                (IF j = i THEN <<">", ">", ">", " ">>
                                 ELSE <<" ", " ", " ", " ">>)
                          /\ SubSeq(entry, 5, Len(entry)) = num \o <<":", " ">> \o lines[j + 1]
                /\ Cardinality({e \in 1..Len(m.context) :
                                  SubSeq(m.context[e], 1, 4) = <<">", ">", ">", " ">>}) = 1

C8_Witness ==
    /\ Searched
    /\ txt.value = <<"\n", "a", "\n">>
    /\ txt.term = <<"a">>
    /\ txt.contextLines = 1
    /\ txt.found.totalMatches = 1
    /\ txt.found.matches[1].lineNumber = 2
    /\ Len(txt.found.matches[1].context) = 3

C10_LimitZeroEmpty ==
    (Paginated /\ txt.limit = 0) => txt.page.lines = <<>>

\* C11: a line number reported by search, passed as the pagination offset
\* with a limit of at least 1, gives a window whose first line is the matched
\* line.
C11_LineNumberIsOffset ==
    (txt.op = "locate" /\ txt.done) =>
        \A i \in 1..Len(txt.found.matches) :
            /\ txt.windows[i].lines # <<>>
            /\ txt.windows[i].lines[1] = txt.found.matches[i].line

ParseDone == txt.op = "parse" /\ txt.done

\* the input is an object, or a text that is nothing but well-formed JSON
\* or XML
CleanInput ==
    \/ txt.data.type = "object"
    \/ txt.data.type = "string" /\ txt.data.lead = <<>> /\ txt.data.wellFormed

\* the raw elements the input holds, in the order of the list they are in
RawElements ==
    IF txt.data.doc.settingDtoList.kind = "array"
    THEN txt.data.doc.settingDtoList.items
    ELSE txt.data.doc.setting.items

NoNullElement == \A i \in 1..Len(RawElements) : ~RawElements[i].isNull

\* the elements as they reach the mapping: xml2js turns every field of an
\* XML element into a one-element array
DeliveredElements ==
    [i \in 1..Len(RawElements) |->
        IF txt.data.syntax \in {"xml", "xmldecl"} THEN Xml2jsItem(RawElements[i])
        ELSE RawElements[i]]

\* C12: parseAPIResponse uses settingDtoList when it is there, else
\* settings.setting; a single object that is not in an array gives the
\* one-element list that the same element in an array gives; with neither
\* the result is the empty list and nothing is raised.
C12_ShapesUnified ==
    (ParseDone /\ CleanInput /\ NoNullElement) =>
        LET dto    == txt.data.doc.settingDtoList
            st     == txt.data.doc.setting
            mapped == [i \in 1..Len(DeliveredElements) |->
                          MapRawSetting(DeliveredElements[i])]
        IN  /\ dto.kind = "array" =>
                  ~txt.parsed.threw /\ txt.parsed.settings = mapped
            /\ (dto.kind = "absent" /\ st.kind = "array") =>
                  ~txt.parsed.threw /\ txt.parsed.settings = mapped
            /\ (dto.kind = "absent" /\ st.kind = "object") =>
                  /\ ~txt.parsed.threw
                  /\ Len(txt.parsed.settings) = 1
                  /\ txt.parsed.settings = mapped
                  /\ txt.parsed =
                       parseAPIResponse([txt.data EXCEPT
                                           !.doc = Document(Absent, ArrayOf(st.items))])
            /\ (dto.kind = "absent" /\ st.kind = "absent") =>
                  ~txt.parsed.threw /\ txt.parsed.settings = <<>>

C12_Witness ==
    /\ ParseDone
    /\ txt.data = ObjectData(Document(Absent, SingleObject(PlainItem)))
    /\ ~txt.parsed.threw
    /\ Len(txt.parsed.settings) = 1
    /\ txt.parsed.settings[1].key = "k"
    /\ txt.parsed.settings[1].owner = 5

\* C13: a text is trimmed and a leading U+FEFF, U+FFFE or U+FFFF is
\* stripped before its format is detected, so a payload preceded by one of
\* the three is parsed like the payload alone; what then starts with
\* neither { [ nor < fails with "Unknown response format".
C13_BomStrippedBeforeDetection ==
    (ParseDone /\ txt.data.type = "string") =>
        LET rest == StripLeading(TrimStart(txt.data.lead),
                                 {BomFEFF, BomFFFE, BomFFFF})
        IN  /\ (rest = <<>> /\ txt.data.syntax # "text") =>
                  txt.parsed = parseAPIResponse([txt.data EXCEPT !.lead = <<>>])
            /\ (rest # <<>> \/ txt.data.syntax = "text") =>
                  /\ txt.parsed.threw
                  /\ txt.parsed.reason = "Unknown response format"

\* C14: deleted is true exactly when the string form of the raw deleted
\* field is "true"; "false", "TRUE", "1" and a missing field give false.
C14_DeletedOnlyForTrue ==
    (ParseDone /\ CleanInput /\ NoNullElement /\ ~txt.parsed.threw) =>
        /\ Len(txt.parsed.settings) = Len(RawElements)
        /\ \A i \in 1..Len(RawElements) :
              LET raw == RawElements[i].deleted
                  deleted == txt.parsed.settings[i].deleted
              IN  /\ deleted = (StringOf(raw) = <<"t", "r", "u", "e">>)
                  /\ raw = JsString(<<"t", "r", "u", "e">>) => deleted
                  /\ raw \in {JsString(<<"f", "a", "l", "s", "e">>),
                              JsString(<<"T", "R", "U", "E">>),
                              JsString(<<"1">>), JsUndefined} => ~deleted

C14_Witness ==
    /\ ParseDone
    /\ txt.data.syntax = "json" /\ txt.data.lead = <<>>
    /\ Len(txt.parsed.settings) = 1
    /\ RawElements[1].deleted = JsString(<<"t", "r", "u", "e">>)
    /\ txt.parsed.settings[1].deleted

\* the number a text denotes when it is read as a decimal integer
ParseDecimal(s) ==
    LET neg  == s # <<>> /\ Head(s) = "-"
        body == IF s # <<>> /\ Head(s) \in {"-", "+"} THEN Tail(s) ELSE s
    IN  IF body = <<>> \/ DigitValue(Head(body), 10) = NaN THEN NaN
        ELSE IF neg THEN 0 - ReadDigits(body, 10, 0) ELSE ReadDigits(body, 10, 0)

\* C15: owner and revision are the string form of the raw field read as a
\* decimal number, never in another radix.
C15_OwnerRevisionDecimal ==
    (ParseDone /\ CleanInput /\ NoNullElement /\ ~txt.parsed.threw) =>
        \A i \in 1..Len(txt.parsed.settings) :
            /\ txt.parsed.settings[i].owner
                  = ParseDecimal(StringOf(RawElements[i].owner))
            /\ txt.parsed.settings[i].revision
                  = ParseDecimal(StringOf(RawElements[i].revision))

\* C16: whatever fails in parseAPIResponse (format detection, JSON or XML
\* parsing, the mapping) reaches the caller as one error "Failed to parse
\* API response: <reason>".
C16_FailuresWrapped ==
    ParseDone =>
        /\ txt.parsed.threw =>
              /\ txt.parsed.error
                    \in {<<"Failed to parse API response:", r>> :
                            r \in {"Unknown response format", "SyntaxError",
                                   "XML parse error", "TypeError"}}
              /\ txt.parsed.settings = <<>>
        /\ (txt.data.type = "string" /\ txt.data.syntax = "text") =>
              txt.parsed.error
                 = <<"Failed to parse API response:", "Unknown response format">>
        /\ (txt.data.type = "string" /\ txt.data.lead = <<>> /\ ~txt.data.wellFormed
              /\ txt.data.syntax = "json") =>
              txt.parsed.error = <<"Failed to parse API response:", "SyntaxError">>
        /\ (txt.data.type = "string" /\ txt.data.lead = <<>> /\ ~txt.data.wellFormed
              /\ txt.data.syntax \in {"xml", "xmldecl"}) =>
              txt.parsed.error = <<"Failed to parse API response:", "XML parse error">>
        /\ (CleanInput /\ ~NoNullElement) =>
              txt.parsed.error = <<"Failed to parse API response:", "TypeError">>

C16_Witness ==
    /\ ParseDone
    /\ txt.data = ErrorData
    /\ txt.parsed.threw
    /\ txt.parsed.error = <<"Failed to parse API response:", "Unknown response format">>

\* C17: a tool call whose environment tag is none of pd, in, ac ends in a
\* configuration error, and no request is issued for it.
C17_UnknownEnvironmentRejected ==
    \A c \in Calls :
        (call[c].tool \in RequestTools /\ call[c].given
           /\ call[c].environment \notin Envs) =>
            /\ requests[c] = 0
            /\ pc[c] = "done"
            /\ toolResult[c].kind = "dispatch"
            /\ toolResult[c].error.template = "Configuration error"

\* C18: the verifier's entry for an environment follows its probe: a
\* response of status 401 or 403 gives valid = false with a message, a
\* response of any other status gives valid = true, and a network-level
\* error gives valid = true with a note.
C18_ProbeClassification ==
    \A c \in Calls :
        \A i \in 1..Len(verify[c].outcomes) :
            LET o == verify[c].outcomes[i]
                r == verify[c].results[EnvSeq[i]]
            IN  /\ r.probed
                /\ (o.kind = "response" /\ o.status \in {401, 403}) =>
                      /\ ~r.valid
                      /\ r.error # NoMsg
                      /\ r.error.status = o.status
                      /\ r.error.env = EnvSeq[i]
                /\ (o.kind = "response" /\ o.status \notin {401, 403}) => r.valid
                /\ o.kind = "axios" => (r.valid /\ r.error # NoMsg)

C18_Witness ==
    \E c \in Calls :
        /\ pc[c] = "done"
        /\ Len(verify[c].outcomes) = 3
        /\ verify[c].outcomes[1] = HttpResponse(403, ErrorData)
        /\ verify[c].outcomes[2] = HttpResponse(404, ErrorData)
        /\ verify[c].outcomes[3].kind = "axios"
        /\ ~verify[c].results["pd"].valid
        /\ verify[c].results["in"].valid /\ verify[c].results["in"].error = NoMsg
        /\ verify[c].results["ac"].valid /\ verify[c].results["ac"].error # NoMsg
        /\ toolResult[c].overall_status = "Some tokens have issues"

\* the status of the last settled request of call c, 0 when there is none
LastStatus(c) ==
    IF received[c] = <<>> THEN 0 ELSE received[c][Len(received[c])]

\* C19: every tool return carries a boolean success indicator (the success
\* field of the payload, or for the dispatcher's own error the isError of
\* the tool return, and the two agree), and a failure carries a message and
\* the status code when a response gave one; also for an unknown tool name
\* and for an exception thrown in a handler.
C19_ResultCarriesIndicator ==
    \A c \in Calls :
        pc[c] = "done" =>
            LET r == toolResult[c] IN
            /\ r.kind # "none"
            /\ r.isError \in BOOLEAN
            /\ r.hasSuccess => (r.success \in BOOLEAN /\ r.isError = ~r.success)
            /\ ~r.hasSuccess => r.isError
            /\ r.isError => (r.error # NoMsg /\ r.error.template # "")
            /\ (r.isError /\ LastStatus(c) # 0) => r.status_code = LastStatus(c)

C19_Witness ==
    \E c \in Calls :
        /\ pc[c] = "done"
        /\ call[c].tool = UnknownTool
        /\ toolResult[c].kind = "dispatch"
        /\ toolResult[c].isError
        /\ toolResult[c].error.template = "Unknown tool:"

\* search_in_setting got a 200 response in which a setting has the key
SearchSelected(c) ==
    /\ Returned(c)
    /\ call[c].tool = "search_in_setting"
    /\ reqResult[c].success
    /\ LET parsed == parseAPIResponse(reqResult[c].response.data)
       IN  ~parsed.threw /\ FindByKey(parsed.settings, call[c].keyName) # 0

\* C20: when the setting search_in_setting selects is flagged encrypted the
\* handler returns the failure "Cannot search in encrypted setting" and
\* searchInSettingValue is not invoked: no search result, with or without
\* matches, is ever returned for an encrypted setting.
C20_EncryptedNeverSearched ==
    \A c \in Calls :
        (SearchSelected(c) /\ FetchedSetting(c).encrypted) =>
            /\ toolResult[c].kind = "failure"
            /\ toolResult[c].error.template = "Cannot search in encrypted setting"
            /\ toolResult[c].isError /\ ~toolResult[c].success
            /\ toolResult[c].found = NoSearch

C20_Witness ==
    \E c \in Calls :
        /\ SearchSelected(c)
        /\ FetchedSetting(c).encrypted
        /\ FetchedSetting(c).key = "k"
        /\ toolResult[c].error.template = "Cannot search in encrypted setting"
        /\ toolResult[c].status_code = 200

----------------------------------------------------------------------------
(* Properties of the retry loop, the verifier and concurrent calls *)

\* C21: every response whose status is not 200 (401, 403, 404, 500 and the
\* 2xx status 204 alike) is retried under the same budget: after such a
\* response on attempt k < 3 the loop goes on to attempt k + 1, and the call
\* ends on a status other than 200 only with the third attempt.
C21_EveryNon200Retried ==
    \A c \in Calls :
        \A k \in 1..Len(received[c]) :
            received[c][k] \in Statuses \ {200} =>
                /\ k <= maxAttempts
                /\ k < maxAttempts =>
                      \/ pc[c] = "backoff" /\ k = Len(received[c])
                      \/ requests[c] >= k + 1
                /\ k = maxAttempts =>
                      pc[c] = "done" /\ requests[c] = maxAttempts
                                     /\ ~reqResult[c].success

C21_Witness ==
    \E c \in Calls :
        /\ Returned(c)
        /\ received[c] = <<401, 404, 204>>
        /\ requests[c] = 3
        /\ reqResult[c].status_code = 204

\* C22: after failed attempt n < 3 the next attempt starts only after a
\* wait of 250ms * 2^(n-1): the waits of a call are 250 and then 500, one
\* per failed attempt that is not the last; no wait follows the third
\* attempt or a successful one, so a call waits at most twice.
C22_BackoffDelays ==
    \A c \in Calls :
        /\ Len(waits[c]) <= 2
        /\ \A n \in 1..Len(waits[c]) :
              /\ waits[c][n] = 250 * Pow2(n - 1)
              /\ received[c][n] # 200
        /\ pc[c] = "backoff" => requests[c] = Len(waits[c])
        /\ pc[c] \in {"await", "done"} /\ requests[c] > 0 =>
              requests[c] = Len(waits[c]) + 1
        /\ Len(waits[c]) = Min(Cardinality({k \in 1..Len(received[c]) : received[c][k] # 200}), 2)

C22_Witness ==
    \E c \in Calls :
        /\ Returned(c)
        /\ received[c] = <<500, 0, 200>>
        /\ waits[c] = <<250, 500>>
        /\ reqResult[c].success

\* the environments of a verify_environment_tokens call probed so far
Probed(c) == 1..Len(verify[c].probes)

\* C23: the token verifier issues exactly one probe request for each of
\* the three environments, against the fixed path /setting/company/1, and
\* issues it through the request executor makeRequest.
C23_OneProbeThroughExecutor ==
    \A c \in Calls :
        /\ Len(verify[c].probes) <= Len(EnvSeq)
        /\ pc[c] = "done" /\ verify[c].next > 0 => Len(verify[c].probes) = Len(EnvSeq)
        /\ \A i \in Probed(c) :
              /\ verify[c].probes[i].environment = EnvSeq[i]
              /\ verify[c].probes[i].url
                    = <<DefaultBaseUrls[EnvSeq[i]], "/setting/company/1">>
              /\ verify[c].probes[i].via = "makeRequest"
              /\ attempt[c] >= 1
              /\ requests[c] >= 1

\* the body of the 200 response that ended the call c
SettledData(c) == reqResult[c].response.data

\* C24: a parse failure is surfaced at once and never retried: the 200
\* response makeRequest returned is the last request of the call, and when
\* parseAPIResponse fails on its body the handler returns a failure result
\* with no further request issued.
C24_ParseFailureNotRetried ==
    \A c \in Calls :
        \A k \in 1..Len(received[c]) :
            received[c][k] = 200 =>
                /\ k = Len(received[c])
                /\ requests[c] = k
                /\ pc[c] = "done"
                /\ reqResult[c].success
                /\ parseAPIResponse(SettledData(c)).threw =>
                      /\ toolResult[c].kind = "failure"
                      /\ toolResult[c].isError
                      /\ ~toolResult[c].success
                      /\ toolResult[c].status_code = 200
                      /\ toolResult[c].error.detail
                            = parseAPIResponse(SettledData(c)).reason
                      /\ toolResult[c].error.template
                            \in {"Failed to process settings: Failed to parse API response:",
                                 "Failed to process setting: Failed to parse API response:",
                                 "Failed to search setting: Failed to parse API response:"}

C24_Witness ==
    \E c \in Calls :
        /\ Returned(c)
        /\ received[c] = <<500, 200>>
        /\ requests[c] = 2
        /\ SettledData(c) = ErrorData
        /\ parseAPIResponse(SettledData(c)).threw
        /\ toolResult[c].kind = "failure"
        /\ toolResult[c].error.detail = "Unknown response format"

\* the outcome of the pair's requests that has the status st (0: no response)
OwnOutcome(st) ==
    CHOOSE o \in PairOutcomes : (IF o.kind = "response" THEN o.status ELSE 0) = st

\* the positions of the failed attempts among the responses of call c
OwnFailures(c) == {k \in 1..Len(received[c]) : received[c][k] # 200}

\* the failure a call captures last, from the responses to its own requests
OwnLastError(c) ==
    IF OwnFailures(c) = {}
    THEN NoResult
    ELSE LET k == CHOOSE i \in OwnFailures(c) : \A j \in OwnFailures(c) : j <= i
         IN  CapturedError(OwnOutcome(received[c][k]), call[c].environment, config)

\* what makeRequest returns to call c, from the responses to its own requests
OwnResult(c) ==
    IF OwnFailures(c) = 1..Len(received[c])
    THEN OwnLastError(c)
    ELSE SuccessResult(OwnOutcome(200))

\* C25: two tool calls that run interleaved (also for the same key and
\* environment) do not interfere: each has its own attempt counter and its
\* own last captured error, each goes through its own cycle of up to 3
\* attempts, and the result of each is determined by the responses to its
\* own requests alone.
C25_CallsDoNotInterfere ==
    \A c \in Calls :
        /\ requests[c] <= maxAttempts
        /\ pc[c] \in {"await", "backoff"} => attempt[c] = requests[c]
        /\ pc[c] = "await" => Len(received[c]) = attempt[c] - 1
        /\ pc[c] = "backoff" => Len(received[c]) = attempt[c]
        /\ lastError[c] = OwnLastError(c)
        /\ Returned(c) =>
              /\ reqResult[c] = OwnResult(c)
              /\ toolResult[c] = HandlerResult(call[c], OwnResult(c))
              /\ ~reqResult[c].success => requests[c] = maxAttempts

C25_Witness ==
    /\ call["c1"] = call["c2"]
    /\ call["c1"].tool = "get_company_setting"
    /\ pc["c1"] = "backoff" /\ received["c1"] = <<401>> /\ attempt["c1"] = 1
    /\ pc["c2"] = "await" /\ received["c2"] = <<0, 0>> /\ attempt["c2"] = 3
    /\ lastError["c1"].status_code = 401
    /\ lastError["c2"].status_code = Undef

\* C26: the configuration object is the state the invocations share: it is
\* loaded once, on the first use, and from then on it is the same object,
\* neither reloaded nor changed, so every invocation resolves the same base
\* URL and credential for an environment.
C26_ConfigLoadedOnce ==
    /\ config.loads <= 1
    /\ config.ok => config = loadConfig(procEnv)
    /\ ~config.ok => config = NoConfig /\ \A c \in Calls : requests[c] = 0
    /\ \A c \in Calls :
          requests[c] > 0 =>
             /\ config.ok /\ config.loads = 1
             /\ LogPreview("makeRequest", call[c].environment, loadConfig(procEnv)) \in log
             /\ lastError[c] # NoResult =>
                   /\ lastError[c].base_url = DefaultBaseUrls[call[c].environment]
                   /\ lastError[c].token_preview
                         = TokenPreview(SelectTokens(procEnv)[call[c].environment])
    /\ \A c, d \in Calls :
          (call[c].environment = call[d].environment
             /\ lastError[c] # NoResult /\ lastError[d] # NoResult) =>
                /\ lastError[c].base_url = lastError[d].base_url
                /\ lastError[c].token_preview = lastError[d].token_preview

C26_Witness ==
    /\ config.ok /\ config.loads = 1
    /\ requests["c1"] = 3 /\ requests["c2"] = 1
    /\ call["c1"].environment = "in" /\ call["c2"].environment = "in"
    /\ lastError["c1"].token_preview = lastError["c2"].token_preview
    /\ lastError["c1"].token_preview = TokenPreview(procEnv.TOKEN_IN)

\* the last failure of call c was captured from a response of status 401 or 403
AuthCaptured(c) ==
    /\ lastError[c] # NoResult
    /\ lastError[c].status_code \in {401, 403}
    /\ call[c].environment \in Envs

\* C27 as stated: when an attempt of makeRequest receives status 401 or 403
\* the captured failure carries the message "Authentication failed ... token
\* appears to be invalid or expired for environment '<env>'", naming the
\* environment, for both statuses.
C27_AuthenticationFailedMessage ==
    \A c \in Calls :
        AuthCaptured(c) =>
            /\ lastError[c].error.template
                  = "Authentication failed - token appears to be invalid or expired for environment"
            /\ lastError[c].error.env = call[c].environment

\* C27 amended: when an attempt of makeRequest receives status 401 or 403
\* the captured failure carries an explicit message of its own that names
\* the environment and the status: "API returned status 403 (Forbidden) for
\* environment '<env>'. This usually indicates an invalid or expired token
\* for this environment." for 403 and "API returned status 401
\* (Unauthorized) for environment '<env>'. Please check your token for this
\* environment." for 401; any other status gets "API returned status <n>".
C27_AuthMessageNamesEnvironment ==
    \A c \in Calls :
        /\ AuthCaptured(c) =>
              /\ lastError[c].error.env = call[c].environment
              /\ lastError[c].error.status = lastError[c].status_code
              /\ lastError[c].environment = call[c].environment
              /\ lastError[c].status_code = 403 =>
                    lastError[c].error.template
                       = "API returned status (Forbidden) for environment. This usually indicates an invalid or expired token for this environment."
              /\ lastError[c].status_code = 401 =>
                    lastError[c].error.template
                       = "API returned status (Unauthorized) for environment. Please check your token for this environment."
        /\ (lastError[c] # NoResult /\ lastError[c].status_code \in Statuses \ {401, 403}) =>
              /\ lastError[c].error.template = "API returned status"
              /\ lastError[c].error.env = ""

C27_Witness ==
    \E c \in Calls :
        /\ AuthCaptured(c)
        /\ received[c] = <<403, 401>>
        /\ lastError[c].status_code = 401
        /\ lastError[c].error.env = "ac"
        /\ lastError[c].error.template
              = "API returned status (Unauthorized) for environment. Please check your token for this environment."

----------------------------------------------------------------------------
(* Properties of paging through a value and of decoding *)

Tiled == txt.op = "tile" /\ txt.done

\* the lines of the pages, one page after the other
RECURSIVE PageLines(_)
PageLines(pages) ==
    IF pages = <<>> THEN <<>> ELSE Head(pages).lines \o PageLines(Tail(pages))

\* C28: pages tile the value: for a page size L >= 1 the pages returned for
\* the offsets 0, L, 2L, ... up to the first one with hasMore = false hold,
\* one after the other, exactly the lines of the value in order, none lost
\* and none repeated; a page holds at most L lines, and hasMore is true
\* exactly when the value has a line at or beyond the page's end index.
C28_PagesTileTheValue ==
    Tiled =>
        LET lines == SplitLines(txt.value)
            L     == txt.limit
            n     == Len(txt.pages)
        IN
        /\ n >= 1
        /\ PageLines(txt.pages) = lines
        /\ ~txt.pages[n].hasMore
        /\ \A i \in 1..n :
              /\ Len(txt.pages[i].lines) <= L
              /\ txt.pages[i].hasMore <=> Len(lines) > (i - 1) * L + L
              /\ i < n => txt.pages[i].hasMore
              /\ txt.pages[i].totalLines = Len(lines)

C28_Witness ==
    /\ Tiled
    /\ txt.value = <<"a", "\n", "a", "\n">>
    /\ txt.limit = 2
    /\ Len(txt.pages) = 2
    /\ txt.pages[1].lines = <<<<"a">>, <<"a">>>> /\ txt.pages[1].hasMore
    /\ txt.pages[2].lines = <<<<>>>> /\ ~txt.pages[2].hasMore

\* C29: decodeSetting changes nothing but the value field: every other
\* field of the result, the encoded and encrypted flags included, is that
\* of the input; the encoded flag therefore stays true after a decode, and
\* a second application to an encoded, non-encrypted setting decodes the
\* decoded value once more.
C29_DecodeChangesOnlyValue ==
    Decoded =>
        /\ DOMAIN txt.once = DOMAIN txt.setting
        /\ \A f \in DOMAIN txt.setting \ {"value"} :
              txt.once[f] = txt.setting[f] /\ txt.twice[f] = txt.setting[f]
        /\ (txt.setting.encoded /\ ~txt.setting.encrypted) =>
              /\ txt.once.encoded
              /\ txt.once.value = Base64Decode(txt.setting.value)
              /\ txt.twice.value = Base64Decode(Base64Decode(txt.setting.value))

C29_Witness ==
    /\ Decoded
    /\ txt.setting.encoded /\ ~txt.setting.encrypted
    /\ txt.setting.value = <<"a", "G", "V", "s", "b", "G", "8", "=">>
    /\ txt.once.value = <<"h", "e", "l", "l", "o">>
    /\ txt.once.encoded /\ txt.twice.encoded
    /\ txt.twice.value # txt.once.value

\* the probe the verifier made of its i-th environment found the token valid
ProbeValid(c, i) ==
    LET o == ProbeSettles(verify[c].outcomes[i]) IN
    /\ o.kind \in {"response", "axios"}
    /\ o.status \notin {401, 403}

\* C30: verifyEnvironmentTokens probes pd, in and ac one after another in
\* that order and returns a result with exactly these three keys: whatever
\* the probe of one environment meets (an invalid token, a network error,
\* an unexpected exception) is recorded under that environment and the
\* remaining environments are probed all the same; the handler reports
\* "All tokens valid" exactly when all three entries are valid.
C30_AllThreeProbedInOrder ==
    \A c \in Calls :
        verify[c].next > 0 =>
            /\ DOMAIN verify[c].results = {"pd", "in", "ac"}
            /\ \A i \in Probed(c) :
                  verify[c].probes[i].environment = <<"pd", "in", "ac">>[i]
            /\ \A i \in 1..3 :
                  /\ verify[c].results[EnvSeq[i]].probed <=> i <= Len(verify[c].outcomes)
                  /\ i <= Len(verify[c].outcomes) =>
                        (verify[c].results[EnvSeq[i]].valid <=> ProbeValid(c, i))
            /\ pc[c] = "probe" =>
                  /\ Len(verify[c].outcomes) < 3
                  /\ Len(verify[c].probes) = Len(verify[c].outcomes) + 1
            /\ pc[c] = "done" =>
                  /\ Len(verify[c].outcomes) = 3
                  /\ Len(verify[c].probes) = 3
                  /\ toolResult[c].environments = verify[c].results
                  /\ toolResult[c].overall_status \in {"All tokens valid",
                                                       "Some tokens have issues"}
                  /\ toolResult[c].overall_status = "All tokens valid"
                        <=> \A i \in 1..3 : ProbeValid(c, i)

C30_Witness ==
    \E c \in Calls :
        /\ pc[c] = "done"
        /\ Len(verify[c].outcomes) = 3
        /\ verify[c].outcomes[1] = HttpResponse(401, ErrorData)
        /\ verify[c].outcomes[2] = AxiosError(0, "timeout of 30000ms exceeded")
        /\ verify[c].outcomes[3] = OtherError("unexpected")
        /\ ~verify[c].results["pd"].valid
        /\ verify[c].results["in"].valid
        /\ ~verify[c].results["ac"].valid
        /\ toolResult[c].overall_status = "Some tokens have issues"

====
